---------------------------- MODULE Spec2Model ----------------------------
(***************************************************************************)
(* A model of the Pintos thread scheduler of src/src/threads/thread.c:     *)
(* ready queue, sleep queue, dispatch, priority donation hooks, the MLFQS  *)
(* statistics, thread creation and exit with the child records; and of the *)
(* frame table and swap slots of src/src/vm and the directories of         *)
(* src/src/filesys/directory.c, each with variables of its own.            *)
(*                                                                         *)
(* One CPU.  A state of the model is a moment at which the running thread  *)
(* is between two operations; every operation that runs with interrupts    *)
(* masked is one action.  thread_sleep reads the timer and writes          *)
(* wakeup_time before it masks interrupts, so it is two actions with the   *)
(* timer interrupt free to fire in between.  The interrupt level is a      *)
(* variable: a thread may call an operation with interrupts on or off, an  *)
(* operation ends by intr_set_level (old_level), and a thread that is      *)
(* switched to resumes at the level its own pending operation restores.    *)
(***************************************************************************)
EXTENDS Integers, Sequences, FiniteSets, TLC

(***************************************************************************)
(* Program constants.                                                      *)
(***************************************************************************)
PRI_MIN == 0
PRI_DEFAULT == 31
PRI_MAX == 63
TIME_SLICE == 4
NICE_MIN == -20
NICE_MAX == 20
\* timer interrupts per second (devices/timer.h)
TIMER_FREQ == 100
\* the unit of the 17.14 fixed-point format: 1 << 14
FP_SHIFT == 14

(***************************************************************************)
(* Bounds of the model.                                                    *)
(***************************************************************************)
\* thread pages that can ever be allocated: main, idle and the created ones
MaxThreads == 4
\* timer interrupts in one behaviour
MaxTicks == 4
\* longest sleep, in ticks
MaxSleep == 2
\* number of locks
NumLocks == 2
\* number of locks used while the timer runs (specification Spec)
NumTimedLocks == 1
\* number of distinct priorities a caller passes, spread around PRI_DEFAULT
NumPriorities == 2

\* pages of the user pool, sectors of the swap block
NumFrames == 3
SwapSectors == 25
\* directories, plain files, and the slots a directory can grow to
NumDirs == 2
NumFiles == 1
MaxEntries == 2
\* PGSIZE / BLOCK_SECTOR_SIZE
BLOCK_PER_PAGE == 8

NULL == 0
\* no priority: the recomputed priority of a thread that has had no recompute
NoPriority == -1
Threads == 1 .. MaxThreads
Locks == 1 .. NumLocks
TimedLocks == 1 .. NumTimedLocks
\* the thread running init.c:main(), set up by thread_init
initial_thread == 1
\* priorities passed to thread_create
InputPriorities == { PRI_DEFAULT - 10 + 10 * k : k \in 0 .. (NumPriorities - 1) }
\* arguments passed to thread_set_priority: the same and one out of range
SetPriorityInputs == InputPriorities \cup {PRI_MAX + 1}
\* priorities of a low-priority creator and of the threads it creates
ScenarioPriorities == {5, 10, 20}
\* the value thread_create returns when it fails
TID_ERROR == -1
\* the largest and the smallest int
INT_MAX == 2147483647
INT_MIN == -INT_MAX - 1
\* recent_cpu of the thread main and load_avg (1.0) of a kernel that has been
\* running, next to the zeroes of a kernel that has just booted
StatisticsInputs ==
  { [recent_cpu |-> 0, load_avg |-> 0],
    [recent_cpu |-> INT_MAX, load_avg |-> 2 ^ FP_SHIFT],
    [recent_cpu |-> INT_MIN, load_avg |-> 2 ^ FP_SHIFT] }
\* arguments passed to thread_set_priority under either scheduler: one in
\* the range and the first value outside it at each end
RangePriorityInputs == {PRI_MIN - 1, PRI_DEFAULT - 10, PRI_MAX + 1}
\* arguments passed to thread_set_priority when the interrupt level is
\* followed: one in range and one that makes it return at once
LevelPriorityInputs == {PRI_DEFAULT - 10, PRI_MAX + 1}
\* arguments passed to thread_set_nice: the two ends of the range and the
\* first value outside it at each end
NiceInputs == {NICE_MIN - 1, NICE_MIN, NICE_MAX, NICE_MAX + 1}

VARIABLES
  status,        \* thread -> "NONE" (no page yet), "RUNNING", "READY", "BLOCKED", "DYING"
  priority,      \* thread -> t->priority
  old_priority,  \* thread -> t->old_priority
  wakeup_time,   \* thread -> t->wakeup_time
  locks,         \* thread -> t->locks, the list of held locks
  lock_waiting,  \* thread -> t->lock_waiting
  pc,            \* thread -> where the thread resumes when it next runs
  ready_list,    \* the ready queue
  sleep_list,    \* the sleep queue
  all_list,      \* the all-threads registry
  current,       \* the thread whose stack the CPU is on (running_thread ())
  idle_thread,   \* the static idle_thread pointer, NULL until idle () sets it
  next_tid,      \* allocate_tid's static counter
  thread_ticks,  \* timer ticks since the last dispatch
  ticks,         \* the timer's tick counter (timer_ticks ())
  intr_enabled,  \* the interrupt level: TRUE is INTR_ON
  intr_context,  \* whether an external interrupt handler is running (intr_context ())
  old_level,     \* thread -> the old_level its pending operation restores when it runs again
  own_level,     \* history: thread -> the level the thread last set by its own intr_disable or intr_enable
  freed,         \* thread -> how many times its page has been given back to palloc
  holder,        \* lock -> lock->holder
  max_priority,  \* lock -> lock->max_priority
  sema_value,    \* lock -> value of the lock's semaphore
  sema_waiters,  \* lock -> waiters of the lock's semaphore
  idle_started,  \* value of thread_start's idle_started semaphore
  child_list,    \* the list of child records, each [child_id, child_thread]
  finish_value,  \* thread -> value of its sema_finish
  finish_waiters,\* thread -> waiters of its sema_finish
  wait_child,    \* thread -> the child record it waits on, NULL if none
  finish_ups,    \* history: thread -> number of sema_up on its sema_finish
  thread_mlfqs,  \* the kernel option -mlfqs
  nice,          \* thread -> t->nice
  recent_cpu,    \* thread -> t->recent_cpu, fixed point
  load_avg,      \* the static load_avg, fixed point
  recomputed,    \* history: thread -> the result of its last update_priority, NoPriority if none
  frame_table,   \* the frames that have a frame_item in the hash table
  swapable,      \* frame -> the swapable field of its frame_item
  frame_clock_list, \* the clock list, a list of frame_items
  current_frame, \* the clock hand
  all_lock,      \* holder of the lock of the frame table, NULL if free
  user_pool,     \* the free pages of palloc's user pool
  top_index,     \* swap.c: first sector never handed out
  swap_free_list,\* swap.c: the indexes given back below top_index
  swap_used,     \* history: the indexes swap_store has returned and nobody has released
  vm_state,      \* "ok", "panic" (the kernel has stopped) or "undefined"
  vm_last,       \* history: the last frame or swap operation, with what it returned
  dir_entries,   \* sector of a directory's inode -> its dir_entry slots, <<>> before dir_create
  fs_last,       \* history: the last directory operation, with what it returned
  ins_order,     \* history: the ready threads in the order of their last insertion
  dispatch,      \* history: the dispatch completed by the last operation, if any
  last           \* history: the operation that led to this state

threadVars == <<priority, old_priority, wakeup_time, locks, lock_waiting, pc>>
queueVars == <<sleep_list, all_list>>
schedVars == <<status, ready_list, ins_order, current, thread_ticks, freed, dispatch>>
cpuVars == <<idle_thread, next_tid, ticks>>
intrVars == <<intr_enabled, intr_context, old_level, own_level>>
lockVars == <<holder, max_priority, sema_value, sema_waiters, idle_started>>
procVars == <<child_list, finish_value, finish_waiters, wait_child, finish_ups>>
mlfqsVars == <<thread_mlfqs, nice, recent_cpu, load_avg, recomputed>>
kernelVars == <<threadVars, queueVars, schedVars, cpuVars, intrVars, lockVars, procVars,
                mlfqsVars, last>>
vmVars == <<frame_table, swapable, frame_clock_list, current_frame, all_lock, user_pool,
            top_index, swap_free_list, swap_used, vm_state, vm_last>>
fsVars == <<dir_entries, fs_last>>
vars == <<kernelVars, vmVars, fsVars>>

(***************************************************************************)
(* Lists.                                                                  *)
(***************************************************************************)
Range(s) == { s[i] : i \in 1 .. Len(s) }
Min(S) == CHOOSE x \in S : \A y \in S : x <= y
Max(S) == CHOOSE x \in S : \A y \in S : x >= y
list_remove(s, x) == SelectSeq(s, LAMBDA y : y # x)
IndexOf(s, x) == Min({ i \in 1 .. Len(s) : s[i] = x })

\* list_insert_ordered: x goes before the first element e with less(x, e),
\* here key[x] > key[e]
InsertDescending(s, x, key) ==
  LET before == { i \in 1 .. Len(s) : key[x] > key[s[i]] }
      at == IF before = {} THEN Len(s) + 1 ELSE Min(before)
  IN SubSeq(s, 1, at - 1) \o <<x>> \o SubSeq(s, at, Len(s))

\* list_insert_ordered under wakeup_time_less: before the first e with
\* key[x] < key[e]
InsertAscending(s, x, key) ==
  LET before == { i \in 1 .. Len(s) : key[x] < key[s[i]] }
      at == IF before = {} THEN Len(s) + 1 ELSE Min(before)
  IN SubSeq(s, 1, at - 1) \o <<x>> \o SubSeq(s, at, Len(s))

\* history: x becomes the most recently inserted ready thread
Stamp(ord, x) == Append(list_remove(ord, x), x)

(***************************************************************************)
(* Fixed-point arithmetic on 32-bit ints (threads/fixed_point.h).          *)
(***************************************************************************)
\* x + y on 32-bit ints, wrapping in two's complement
AddWrap(x, y) ==
  IF x > 0 /\ y > 0 /\ x > INT_MAX - y THEN (x - INT_MAX - 1) + (y - INT_MAX - 1)
  ELSE IF x < 0 /\ y < 0 /\ x < INT_MIN - y THEN (x - INT_MIN) + (y - INT_MIN)
  ELSE x + y

\* x * n on 32-bit ints for n >= 0, wrapping in two's complement
RECURSIVE MulWrap(_, _)
MulWrap(x, n) ==
  IF n = 0 THEN 0
  ELSE LET h == MulWrap(x, n \div 2)
       IN IF n % 2 = 0 THEN AddWrap(h, h) ELSE AddWrap(AddWrap(h, h), x)

\* x / n of C for n > 0: the quotient truncated toward zero
CDiv(x, n) == IF x >= 0 THEN x \div n ELSE (x + n - 1) \div n

F == 2 ^ FP_SHIFT
CONVERT_TO_FP(n) == n * F
CONVERT_TO_INT_ROUND(x) ==
  IF x >= 0 THEN CDiv(AddWrap(x, F \div 2), F) ELSE CDiv(AddWrap(x, -(F \div 2)), F)
ADD_INT(x, n) == AddWrap(x, n * F)
MULT_INT(x, n) == MulWrap(x, n)
DIV_INT(x, n) == CDiv(x, n)
\* ((int64_t) x) * y / F for 0 <= x <= F, y any int: the 64-bit product is
\* formed from the quotient and the remainder of y by F
MULT(x, y) ==
  LET q == y \div F
      r == y % F
  IN IF y >= 0 THEN q * x + (r * x) \div F ELSE q * x + (r * x + F - 1) \div F
\* ((int64_t) x) * F / y for 0 <= x < 2 ^ 17 and y > 0
DIV(x, y) == CDiv(x * F, y)

(***************************************************************************)
(* Dispatch.                                                               *)
(***************************************************************************)
NoDispatch == [happened |-> FALSE, ready |-> <<>>, prev |-> NULL, next |-> NULL]

\* next_thread_to_run taking the back of the ready queue instead of its front
next_thread_to_run_back(rl) == IF rl = <<>> THEN idle_thread ELSE rl[Len(rl)]

\* next_thread_to_run preferring the idle thread to a single ready thread
next_thread_to_run_idle(rl) ==
  IF idle_thread # NULL /\ Len(rl) <= 1 THEN idle_thread ELSE Head(rl)

\* next_thread_to_run: the thread it returns
next_thread_to_run(rl) == IF rl = <<>> THEN idle_thread ELSE Head(rl)

\* next_thread_to_run: the ready queue it leaves (list_pop_front)
ready_after_pop(rl) == IF rl = <<>> THEN rl ELSE Tail(rl)

\* thread_schedule_tail (prev): the statuses it leaves
thread_schedule_tail(st, next) == [st EXCEPT ![next] = "RUNNING"]

\* thread_schedule_tail without the test prev != initial_thread
pages_freed_any(st, prev) ==
  IF prev # NULL /\ st[prev] = "DYING"
  THEN [freed EXCEPT ![prev] = @ + 1]
  ELSE freed

\* thread_schedule_tail (prev): the pages released so far
pages_freed(st, prev) ==
  IF prev # NULL /\ st[prev] = "DYING" /\ prev # initial_thread
  THEN [freed EXCEPT ![prev] = @ + 1]
  ELSE freed

\* schedule (), called by the current thread after it has left RUNNING in st;
\* rl and ord are the ready queue and its insertion history at the call
schedule(st, rl, ord) ==
  LET next == next_thread_to_run(rl)
      prev == IF current # next THEN current ELSE NULL
  IN /\ st[current] # "RUNNING"
     /\ next # NULL
     /\ status' = thread_schedule_tail(st, next)
     /\ ready_list' = ready_after_pop(rl)
     /\ ins_order' = list_remove(ord, next)
     /\ current' = next
     /\ thread_ticks' = 0
     /\ freed' = pages_freed(st, prev)
     /\ dispatch' = [happened |-> TRUE, ready |-> rl, prev |-> current, next |-> next]

\* the operation ends without a dispatch
no_schedule(st, rl, ord, tt) ==
  /\ status' = st
  /\ ready_list' = rl
  /\ ins_order' = ord
  /\ thread_ticks' = tt
  /\ dispatch' = NoDispatch
  /\ UNCHANGED <<current, freed>>

\* thread_unblock (t): the ready queue it leaves
thread_unblock(rl, t, pr) == InsertDescending(rl, t, pr)

\* thread_yield without the test cur != idle_thread
yield_ready_idle_too(rl, pr) == InsertDescending(rl, current, pr)

\* thread_yield with list_push_front in place of list_insert_ordered
yield_ready_front(rl, pr) == IF current # idle_thread THEN <<current>> \o rl ELSE rl

\* thread_yield: the ready queue at its call of schedule ()
yield_ready(rl, pr) ==
  IF current # idle_thread THEN InsertDescending(rl, current, pr) ELSE rl

yield_order(ord) == IF current # idle_thread THEN Stamp(ord, current) ELSE ord

\* thread_yield by the current thread
thread_yield(st, rl, ord, pr) ==
  schedule([st EXCEPT ![current] = "READY"], yield_ready(rl, pr), yield_order(ord))

\* thread_cond_yield that never finds a reason to yield
cond_yield_never(rl, pr) == FALSE

\* thread_cond_yield yielding to a head of equal priority as well
cond_yield_or_equal(rl, pr) ==
  /\ current # idle_thread
  /\ rl # <<>>
  /\ pr[current] <= pr[Head(rl)]

\* the test of thread_cond_yield
cond_yield_test(rl, pr) ==
  /\ current # idle_thread
  /\ rl # <<>>
  /\ pr[current] < pr[Head(rl)]

\* thread_cond_yield by the current thread
thread_cond_yield(st, rl, ord, pr) ==
  IF cond_yield_test(rl, pr)
  THEN thread_yield(st, rl, ord, pr)
  ELSE no_schedule(st, rl, ord, thread_ticks)

\* the highest priority among the waiters of a semaphore, PRI_MIN without waiters
max_waiter_priority(ws, pr) ==
  IF ws = <<>> THEN PRI_MIN ELSE Max({ pr[ws[i]] : i \in 1 .. Len(ws) })

\* sema_up: the waiter it wakes, the first of those with the highest priority
sema_up_pick(ws, pr) ==
  ws[Min({ i \in 1 .. Len(ws) : pr[ws[i]] = max_waiter_priority(ws, pr) })]

\* intr_enable () in place of intr_set_level (old_level)
intr_set_level_on(level) == TRUE

\* intr_set_level (old_level): the level it sets
intr_set_level(level) == level

\* old_level = intr_disable () at the start of an operation and
\* intr_set_level (old_level) at its end, by the thread that then has the
\* CPU: after a dispatch that is the thread switched to, which restores the
\* level it saved when it was switched out (a new thread starts in
\* kernel_thread, which enables interrupts)
intr_return ==
  /\ old_level' = IF dispatch'.happened
                  THEN [old_level EXCEPT ![current] = intr_enabled]
                  ELSE old_level
  /\ intr_enabled' = intr_set_level(IF dispatch'.happened THEN old_level'[current']
                                    ELSE intr_enabled)
  /\ UNCHANGED <<intr_context, own_level>>

\* history: the operation, its caller, its argument and the caller's priority before it
Op(name, arg) == [op |-> name, caller |-> current, arg |-> arg, was |-> priority[current]]

(***************************************************************************)
(* The state thread_init leaves: the code that is running has become the   *)
(* thread "main"; interrupts are still off.                                *)
(***************************************************************************)
(* Virtual memory: the frame table with its clock list (vm/frame.c) and    *)
(* the swap slots (vm/swap.c).  A frame_item is named by the frame it      *)
(* describes.  Every frame operation runs between lock_acquire (&all_lock) *)
(* and its return, with no other frame operation in between, and is one    *)
(* action.                                                                 *)
(***************************************************************************)
\* list_next of the last element: the tail sentinel of frame_clock_list
LIST_TAIL == -1
\* a pointer to a frame_item that has been passed to free ()
FREED_ITEM == -2
\* (index_t)-1, the value swap_store returns when there is no slot
NO_INDEX == -1
\* the user pool of palloc
Frames == 1 .. NumFrames
\* the starts of the page-sized slots of the swap block
SwapIndexes == { i \in 0 .. (SwapSectors - 1) : i % BLOCK_PER_PAGE = 0 }

\* frame_init and swap_init; palloc_init has every user page free
frame_init ==
  /\ frame_table = {}
  /\ swapable = [f \in Frames |-> TRUE]
  /\ frame_clock_list = <<>>
  /\ all_lock = NULL
  /\ current_frame = NULL
  /\ user_pool = Frames
  /\ top_index = 0
  /\ swap_free_list = <<>>
  /\ swap_used = {}
  /\ vm_state = "ok"
  /\ vm_last = [op |-> "frame_init", arg |-> NULL, ret |-> NULL]

\* list_next (&x->list_elem), by the links x has in the list cl
list_next(cl, x) ==
  IF IndexOf(cl, x) = Len(cl) THEN LIST_TAIL ELSE cl[IndexOf(cl, x) + 1]

\* frame_swap_next: cl is frame_clock_list, cur is current_frame and next is
\* list_next (&cur->list_elem)
frame_swap_next(cl, cur, next) ==
  IF Len(cl) = 1 THEN cur
  ELSE IF cur = cl[Len(cl)] THEN cl[1]
  ELSE next

\* the while loop of frame_get: the hand passes every frame whose page has
\* its accessed bit set (acc), clearing the bit
RECURSIVE clock_scan(_, _, _)
clock_scan(cl, cur, acc) ==
  IF cur \in acc
  THEN clock_scan(cl, frame_swap_next(cl, cur, list_next(cl, cur)), acc \ {cur})
  ELSE cur

\* swap_store: its test of the room left at top_index, without the test
swap_has_room_always(top) == TRUE

\* swap_store: top_index + BLOCK_PER_PAGE < block_size (swap_block)
swap_has_room(top) == top + BLOCK_PER_PAGE < SwapSectors

\* swap_store: the index it returns
swap_store_index(top, fl) ==
  IF fl = <<>>
  THEN IF swap_has_room(top) THEN top ELSE NO_INDEX
  ELSE Head(fl)

\* swap_store: top_index afterwards
swap_store_top(top, fl) ==
  IF fl = <<>> /\ swap_has_room(top) THEN top + BLOCK_PER_PAGE ELSE top

\* swap_store: swap_free_list afterwards
swap_store_list(top, fl) == IF fl = <<>> THEN fl ELSE Tail(fl)

\* swap_free: top_index afterwards
swap_free_top(top, index) == IF top = index + BLOCK_PER_PAGE THEN index ELSE top

\* swap_free: swap_free_list afterwards
swap_free_list_after(top, fl, index) ==
  IF top = index + BLOCK_PER_PAGE THEN fl ELSE Append(fl, index)

\* a frame operation that has returned, with the lock as it leaves it; the
\* arg of frame_get is the index its swap_store returned, NO_INDEX if none
frame_return(name, arg, ret, lock) ==
  /\ vm_last' = [op |-> name, arg |-> arg, ret |-> ret]
  /\ all_lock' = lock

\* frame_get (flag, upage) when palloc_get_page has a free user page
frame_get_free ==
  LET frame == Min(user_pool)
  IN /\ user_pool' = user_pool \ {frame}
     /\ frame_table' = frame_table \cup {frame}
     /\ swapable' = [swapable EXCEPT ![frame] = TRUE]
     /\ frame_return("frame_get", NO_INDEX, frame, NULL)
     /\ UNCHANGED <<frame_clock_list, current_frame, top_index, swap_free_list,
                    swap_used, vm_state>>

\* frame_get (flag, upage) when palloc_get_page returns NULL: a frame is
\* evicted.  acc are the frames whose pages have the accessed bit set; to_file
\* says whether the page of the victim is written back to a mapped file
frame_get_evict(acc, to_file) ==
  LET t == clock_scan(frame_clock_list, current_frame, acc)
      index == IF to_file THEN NO_INDEX ELSE swap_store_index(top_index, swap_free_list)
      cl == list_remove(frame_clock_list, t)
      hand == IF cl = <<>> THEN NULL
              ELSE frame_swap_next(cl, t, list_next(frame_clock_list, t))
  IN IF ~to_file /\ index = NO_INDEX
     THEN \* if (index == -1) return NULL;
          /\ current_frame' = t
          /\ frame_return("frame_get", NO_INDEX, NULL, current)
          /\ UNCHANGED <<frame_table, swapable, frame_clock_list, user_pool, top_index,
                         swap_free_list, swap_used, vm_state>>
     ELSE /\ top_index' = IF to_file THEN top_index
                          ELSE swap_store_top(top_index, swap_free_list)
          /\ swap_free_list' = IF to_file THEN swap_free_list
                               ELSE swap_store_list(top_index, swap_free_list)
          /\ swap_used' = IF to_file THEN swap_used ELSE swap_used \cup {index}
          /\ frame_clock_list' = cl
          \* free (t): a hand left on t points into freed memory
          /\ current_frame' = IF hand = t THEN FREED_ITEM ELSE hand
          \* the item of t goes and the item of the caller comes, same frame
          /\ frame_table' = frame_table
          /\ swapable' = [swapable EXCEPT ![t] = TRUE]
          /\ frame_return("frame_get", index, t, NULL)
          /\ UNCHANGED <<user_pool, vm_state>>

\* the kernel stops, or goes on in a state the C standard does not define
vm_stop(name, how) ==
  /\ vm_state' = how
  /\ vm_last' = [op |-> name, arg |-> NULL, ret |-> NULL]
  /\ all_lock' = current
  /\ UNCHANGED <<frame_table, swapable, frame_clock_list, current_frame, user_pool,
                 top_index, swap_free_list, swap_used>>

FrameGet(acc, to_file) ==
  /\ vm_state = "ok"
  /\ status[current] = "RUNNING"
  /\ all_lock = NULL
  /\ IF user_pool # {} THEN frame_get_free
     ELSE IF current_frame = NULL THEN vm_stop("frame_get", "panic")
     ELSE IF current_frame \in {FREED_ITEM, LIST_TAIL}
          THEN \* current_frame->t read through a pointer that is no frame_item
               \E how \in {"panic", "undefined"} : vm_stop("frame_get", how)
     ELSE frame_get_evict(acc \cap Range(frame_clock_list), to_file)
  /\ UNCHANGED <<kernelVars, fsVars>>

\* frame_free (frame); same says how current_frame == t comes out
FrameFree(frame, same) ==
  /\ vm_state = "ok"
  /\ status[current] = "RUNNING"
  /\ all_lock = NULL
  /\ IF frame \notin frame_table
     THEN vm_stop("frame_free", "panic")
     ELSE /\ same = IF current_frame = FREED_ITEM THEN same ELSE current_frame = frame
          /\ LET hand == IF ~swapable[frame] /\ same
                         THEN frame_swap_next(frame_clock_list, frame,
                                              list_next(frame_clock_list, frame))
                         ELSE current_frame
             IN /\ frame_clock_list' = IF ~swapable[frame]
                                       THEN list_remove(frame_clock_list, frame)
                                       ELSE frame_clock_list
                /\ current_frame' = IF hand = frame THEN FREED_ITEM ELSE hand
          /\ frame_table' = frame_table \ {frame}
          /\ swapable' = [swapable EXCEPT ![frame] = TRUE]
          /\ user_pool' = user_pool \cup {frame}
          /\ frame_return("frame_free", frame, NULL, NULL)
          /\ UNCHANGED <<top_index, swap_free_list, swap_used, vm_state>>
  /\ UNCHANGED <<kernelVars, fsVars>>

\* frame_set_unswapable (frame)
FrameSetUnswapable(frame) ==
  /\ vm_state = "ok"
  /\ status[current] = "RUNNING"
  /\ all_lock = NULL
  /\ IF frame \notin frame_table
     THEN /\ frame_return("frame_set_unswapable", frame, FALSE, NULL)
          /\ UNCHANGED <<swapable, frame_clock_list, current_frame>>
     ELSE IF ~swapable[frame]
     THEN /\ frame_return("frame_set_unswapable", frame, TRUE, NULL)
          /\ UNCHANGED <<swapable, frame_clock_list, current_frame>>
     ELSE /\ swapable' = [swapable EXCEPT ![frame] = FALSE]
          /\ frame_clock_list' = Append(frame_clock_list, frame)
          /\ current_frame' = IF Len(frame_clock_list') = 1 THEN frame ELSE current_frame
          /\ frame_return("frame_set_unswapable", frame, TRUE, NULL)
  /\ UNCHANGED <<frame_table, user_pool, top_index, swap_free_list, swap_used, vm_state>>
  /\ UNCHANGED <<kernelVars, fsVars>>

\* swap_store (kpage)
SwapStore ==
  /\ vm_state = "ok"
  /\ LET index == swap_store_index(top_index, swap_free_list)
     IN /\ top_index' = swap_store_top(top_index, swap_free_list)
        /\ swap_free_list' = swap_store_list(top_index, swap_free_list)
        /\ swap_used' = IF index = NO_INDEX THEN swap_used ELSE swap_used \cup {index}
        /\ vm_last' = [op |-> "swap_store", arg |-> NULL, ret |-> index]
  /\ UNCHANGED <<frame_table, swapable, frame_clock_list, current_frame, user_pool,
                 all_lock, vm_state>>
  /\ UNCHANGED <<kernelVars, fsVars>>

\* swap_free (index) of a slot in use
SwapFree(index) ==
  /\ vm_state = "ok"
  /\ index \in swap_used
  /\ top_index' = swap_free_top(top_index, index)
  /\ swap_free_list' = swap_free_list_after(top_index, swap_free_list, index)
  /\ swap_used' = swap_used \ {index}
  /\ vm_last' = [op |-> "swap_free", arg |-> index, ret |-> NULL]
  /\ UNCHANGED <<frame_table, swapable, frame_clock_list, current_frame, user_pool,
                 all_lock, vm_state>>
  /\ UNCHANGED <<kernelVars, fsVars>>

\* swap_load (index, kpage) of a slot in use: the sectors are read, then swap_free
SwapLoad(index) ==
  /\ vm_state = "ok"
  /\ index \in swap_used
  /\ top_index' = swap_free_top(top_index, index)
  /\ swap_free_list' = swap_free_list_after(top_index, swap_free_list, index)
  /\ swap_used' = swap_used \ {index}
  /\ vm_last' = [op |-> "swap_load", arg |-> index, ret |-> NULL]
  /\ UNCHANGED <<frame_table, swapable, frame_clock_list, current_frame, user_pool,
                 all_lock, vm_state>>
  /\ UNCHANGED <<kernelVars, fsVars>>

(***************************************************************************)
(* Directories (filesys/directory.c).  A directory is the sequence of the  *)
(* dir_entry slots of its inode; slot 0, the first of the sequence, holds  *)
(* the sector of the parent directory.                                     *)
(***************************************************************************)
\* sectors that hold the inodes of directories, and of plain files
DirSectors == 1 .. NumDirs
FileSectors == (NumDirs + 1) .. (NumDirs + NumFiles)
\* file names passed to dir_add, dir_lookup and dir_remove
Names == {"a", "b"}
\* the bytes of a name that was never written
NoName == ""
\* entry_cnt arguments of dir_create
EntryCounts == {1, MaxEntries}

\* a slot as inode_create leaves it: all bytes zero
ZeroEntry == [inode_sector |-> 0, name |-> NoName, in_use |-> FALSE]

\* no directory has been created
fs_init ==
  /\ dir_entries = [d \in DirSectors |-> <<>>]
  /\ fs_last = [op |-> "filesys_init", dir |-> NULL, name |-> NoName, sector |-> NULL,
                ret |-> TRUE]

\* lookup (dir, name, ...): the offset of the entry, in slots; 0 if there is none
lookup(entries, name) ==
  LET found == { i \in 2 .. Len(entries) : entries[i].in_use /\ entries[i].name = name }
  IN IF found = {} THEN 0 ELSE Min(found) - 1

\* dir_is_empty
dir_is_empty(entries) == \A i \in 2 .. Len(entries) : ~entries[i].in_use

\* dir_lookup (dir, name, &inode) for a name other than "." and "..": the
\* sector of the inode it opens, NULL if it fails
dir_lookup(entries, name) ==
  IF lookup(entries, name) # 0 THEN entries[lookup(entries, name) + 1].inode_sector ELSE NULL

\* dir_lookup (dir, "..", &inode): the sector slot 0 names
dir_lookup_parent(entries) == entries[1].inode_sector

\* dir_add: for (ofs = 0; ...) if (!e.in_use) break;  the offset in slots,
\* the end of the file if every slot is in use
free_slot(entries) ==
  LET free == { i \in 1 .. Len(entries) : ~entries[i].in_use }
  IN IF free = {} THEN Len(entries) ELSE Min(free) - 1

\* inode_write_at of one slot at offset ofs (in slots)
write_slot(entries, ofs, e) ==
  IF ofs < Len(entries) THEN [entries EXCEPT ![ofs + 1] = e] ELSE Append(entries, e)

\* dir_create (sector, entry_cnt); in_use is the value that the field of the
\* local e, never assigned, happens to have
DirCreate(sector, entry_cnt, in_use) ==
  /\ dir_entries[sector] = <<>>
  /\ LET zeroed == [i \in 1 .. entry_cnt |-> ZeroEntry]
         e == [inode_sector |-> sector, name |-> NoName, in_use |-> in_use]
     IN dir_entries' = [dir_entries EXCEPT ![sector] = write_slot(zeroed, 0, e)]
  /\ fs_last' = [op |-> "dir_create", dir |-> sector, name |-> NoName, sector |-> sector,
                 ret |-> TRUE]
  /\ UNCHANGED <<kernelVars, vmVars>>

\* dir_add (dir, name, inode_sector, is_dir), is_dir being whether inode_sector
\* holds a directory; in_use as in dir_create; grow is whether inode_write_at
\* past the end of the file succeeds
DirAdd(dir, name, inode_sector, in_use, grow) ==
  /\ dir_entries[dir] # <<>>
  /\ inode_sector # dir
  /\ inode_sector \in DirSectors => dir_entries[inode_sector] # <<>>
  /\ LET is_dir == inode_sector \in DirSectors
         exists == lookup(dir_entries[dir], name) # 0
         parent == [inode_sector |-> dir, name |-> NoName, in_use |-> in_use]
         linked == IF is_dir /\ ~exists
                   THEN [dir_entries EXCEPT ![inode_sector] = write_slot(@, 0, parent)]
                   ELSE dir_entries
         ofs == free_slot(linked[dir])
         e == [inode_sector |-> inode_sector, name |-> name, in_use |-> TRUE]
         success == ~exists /\ (ofs < Len(linked[dir]) \/ (grow /\ ofs < MaxEntries))
     IN /\ dir_entries' = IF success
                          THEN [linked EXCEPT ![dir] = write_slot(@, ofs, e)]
                          ELSE linked
        /\ fs_last' = [op |-> "dir_add", dir |-> dir, name |-> name,
                       sector |-> inode_sector, ret |-> success]
  /\ UNCHANGED <<kernelVars, vmVars>>

\* dir_remove (dir, name)
DirRemove(dir, name) ==
  /\ dir_entries[dir] # <<>>
  /\ LET ofs == lookup(dir_entries[dir], name)
         e == dir_entries[dir][ofs + 1]
         nonempty == /\ e.inode_sector \in DirSectors
                     /\ ~dir_is_empty(dir_entries[e.inode_sector])
         success == ofs # 0 /\ ~nonempty
     IN /\ dir_entries' = IF success
                          THEN [dir_entries EXCEPT ![dir] =
                                  write_slot(@, ofs, [e EXCEPT !.in_use = FALSE])]
                          ELSE dir_entries
        /\ fs_last' = [op |-> "dir_remove", dir |-> dir, name |-> name, sector |-> NULL,
                       ret |-> success]
  /\ UNCHANGED <<kernelVars, vmVars>>

(***************************************************************************)
\* rc and la are the recent_cpu of main and load_avg, both 0 at boot
thread_init(mlfqs, rc, la) ==
  /\ thread_mlfqs = mlfqs
  /\ frame_init
  /\ fs_init
  /\ nice = [t \in Threads |-> 0]
  /\ recent_cpu = [t \in Threads |-> IF t = initial_thread THEN rc ELSE 0]
  /\ load_avg = la
  /\ recomputed = [t \in Threads |-> NoPriority]
  /\ status = [t \in Threads |-> IF t = initial_thread THEN "RUNNING" ELSE "NONE"]
  /\ priority = [t \in Threads |-> IF t = initial_thread THEN PRI_DEFAULT ELSE PRI_MIN]
  /\ old_priority = [t \in Threads |-> IF t = initial_thread THEN PRI_DEFAULT ELSE PRI_MIN]
  /\ wakeup_time = [t \in Threads |-> 0]
  /\ locks = [t \in Threads |-> <<>>]
  /\ lock_waiting = [t \in Threads |-> NULL]
  /\ pc = [t \in Threads |-> IF t = initial_thread THEN "boot" ELSE "none"]
  /\ ready_list = <<>>
  /\ sleep_list = <<>>
  /\ all_list = {initial_thread}
  /\ current = initial_thread
  /\ idle_thread = NULL
  /\ next_tid = 2
  /\ thread_ticks = 0
  /\ ticks = 0
  /\ intr_enabled = FALSE
  /\ intr_context = FALSE
  /\ old_level = [t \in Threads |-> t # initial_thread]
  /\ own_level = [t \in Threads |-> t # initial_thread]
  /\ freed = [t \in Threads |-> 0]
  /\ holder = [l \in Locks |-> NULL]
  /\ max_priority = [l \in Locks |-> PRI_MIN]
  /\ sema_value = [l \in Locks |-> 1]
  /\ sema_waiters = [l \in Locks |-> <<>>]
  /\ idle_started = 0
  /\ child_list = <<>>
  /\ finish_value = [t \in Threads |-> 0]
  /\ finish_waiters = [t \in Threads |-> <<>>]
  /\ wait_child = [t \in Threads |-> NULL]
  /\ finish_ups = [t \in Threads |-> 0]
  /\ ins_order = <<>>
  /\ dispatch = NoDispatch
  /\ last = [op |-> "thread_init", caller |-> initial_thread, arg |-> NULL, was |-> PRI_DEFAULT]

\* the kernel started without -mlfqs
Init == thread_init(FALSE, 0, 0)

(***************************************************************************)
(* MLFQS statistics.                                                       *)
(***************************************************************************)
\* update_priority without the two clamping assignments
clamp_none(p) == p

\* update_priority: the clamp to PRI_MIN .. PRI_MAX
clamp(p) == IF p < PRI_MIN THEN PRI_MIN ELSE IF p > PRI_MAX THEN PRI_MAX ELSE p

\* update_priority (t): the priority it computes from recent_cpu rc and nice n
mlfqs_priority(rc, n) == clamp(PRI_MAX - CONVERT_TO_INT_ROUND(DIV_INT(rc, 4)) - n * 2)

\* update_priority (t): the priorities it leaves
update_priority(pr, rc, nc, t) ==
  IF t = idle_thread THEN pr ELSE [pr EXCEPT ![t] = mlfqs_priority(rc[t], nc[t])]

\* history of update_priority (t)
update_recomputed(rp, rc, nc, t) ==
  IF t = idle_thread THEN rp ELSE [rp EXCEPT ![t] = mlfqs_priority(rc[t], nc[t])]

\* update_recent_cpu (t): the recent_cpu values it leaves
update_recent_cpu(rc, nc, t) ==
  IF t = idle_thread THEN rc
  ELSE LET coefficient == DIV(MULT_INT(load_avg, 2), ADD_INT(MULT_INT(load_avg, 2), 1))
       IN [rc EXCEPT ![t] = ADD_INT(MULT(coefficient, rc[t]), nc[t])]

\* thread_get_recent_cpu by thread t
thread_get_recent_cpu(t) == CONVERT_TO_INT_ROUND(MULT_INT(recent_cpu[t], 100))

\* increase_recent_cpu by the current thread
increase_recent_cpu(rc) ==
  IF current = idle_thread \/ status[current] # "RUNNING" THEN rc
  ELSE [rc EXCEPT ![current] = ADD_INT(rc[current], 1)]

\* update_load_avg with rl the ready queue
update_load_avg(rl) ==
  LET ready_threads == IF current # idle_thread THEN Len(rl) + 1 ELSE Len(rl)
  IN AddWrap(MULT(DIV_INT(CONVERT_TO_FP(59), 60), load_avg),
             MULT_INT(DIV_INT(CONVERT_TO_FP(1), 60), ready_threads))

\* update_recent_cpu_for_each: update_recent_cpu for every thread of the
\* all-threads registry al
update_recent_cpu_for_each(rc, nc, al) ==
  [t \in Threads |-> IF t \in al THEN update_recent_cpu(rc, nc, t)[t] ELSE rc[t]]

\* update_priority_for_each: update_priority for every thread of al
update_priority_for_each(pr, rc, nc, al) ==
  [t \in Threads |-> IF t \in al THEN update_priority(pr, rc, nc, t)[t] ELSE pr[t]]

\* history of update_priority_for_each
update_recomputed_for_each(rp, rc, nc, al) ==
  [t \in Threads |-> IF t \in al THEN update_recomputed(rp, rc, nc, t)[t] ELSE rp[t]]

\* list_sort (&ready_list, thread_priority_more): a stable sort
RECURSIVE list_sort(_, _, _)
list_sort(sorted, rl, pr) ==
  IF rl = <<>> THEN sorted
  ELSE list_sort(InsertDescending(sorted, Head(rl), pr), Tail(rl), pr)

(***************************************************************************)
(* thread_create                                                           *)
(***************************************************************************)
\* the child record thread_create fills in; sema_start and sema_finish point
\* into the page of child_thread
child_info(tid, t) == [child_id |-> tid, child_thread |-> t]

\* the null pointer to a child record
NoChildInfo == [child_id |-> NULL, child_thread |-> NULL]

\* get_child_info (tid): the first record of the list with that child_id
get_child_info(cl, tid) ==
  LET found == { i \in 1 .. Len(cl) : cl[i].child_id = tid }
  IN IF found = {} THEN NoChildInfo ELSE cl[Min(found)]

\* thread_create (name, p, function, aux) by the current thread; the new
\* thread starts at entry and the caller goes on at after
thread_create(p, entry, after) ==
  LET t == next_tid
      pr0 == [priority EXCEPT ![t] = p]
      st == [status EXCEPT ![t] = "READY"]
      rl == thread_unblock(ready_list, t, pr0)
      ord == Stamp(ins_order, t)
      \* init_thread: the new thread takes over nice and the reading of recent_cpu
      nc == [nice EXCEPT ![t] = nice[current]]
      rc0 == [recent_cpu EXCEPT ![t] = thread_get_recent_cpu(current)]
      \* if (thread_mlfqs): the statistics of the new thread, then of the caller
      rc1 == update_recent_cpu(rc0, nc, t)
      pr1 == update_priority(pr0, rc1, nc, t)
      rc2 == update_recent_cpu(rc1, nc, current)
      pr2 == update_priority(pr1, rc2, nc, current)
      pr == IF thread_mlfqs THEN pr2 ELSE pr0
  IN /\ next_tid <= MaxThreads
     /\ next_tid' = next_tid + 1
     /\ nice' = nc
     /\ recent_cpu' = IF thread_mlfqs THEN rc2 ELSE rc0
     /\ recomputed' = IF thread_mlfqs
                      THEN update_recomputed(update_recomputed(recomputed, rc1, nc, t),
                                             rc2, nc, current)
                      ELSE recomputed
     /\ UNCHANGED <<thread_mlfqs, load_avg>>
     /\ priority' = pr
     /\ old_priority' = [old_priority EXCEPT ![t] = p]
     /\ wakeup_time' = [wakeup_time EXCEPT ![t] = 0]
     /\ locks' = [locks EXCEPT ![t] = <<>>]
     /\ lock_waiting' = [lock_waiting EXCEPT ![t] = NULL]
     /\ all_list' = all_list \cup {t}
     /\ child_list' = Append(child_list, child_info(t, t))
     /\ thread_cond_yield(st, rl, ord, pr)
     /\ pc' = [pc EXCEPT ![t] = entry, ![current] = after]

\* the code that calls an operation: a running thread between two operations
\* of its own, or an interrupt handler that has interrupted it there
Calling == status[current] = "RUNNING" /\ pc[current] = "run"

\* a running thread that is between two operations
Running(t) == current = t /\ status[t] = "RUNNING" /\ pc[t] = "run" /\ ~intr_context

ThreadCreate(p) ==
  /\ Running(current)
  /\ thread_create(p, "run", "run")
  /\ last' = Op("thread_create", next_tid)
  /\ UNCHANGED <<sleep_list, idle_thread, ticks, lockVars, finish_value,
                 finish_waiters, wait_child, finish_ups>>
  /\ intr_return
  /\ UNCHANGED <<vmVars, fsVars>>

\* thread_create with allocate_tid () ahead of the test of the page
create_fail_tid_taken(n) == n + 1

\* thread_create when palloc_get_page returns NULL for the thread's page: the
\* tid counter at the return
create_fail_tid(n) == n

\* thread_create when there is no page for the thread: return TID_ERROR
ThreadCreateFail ==
  /\ Running(current)
  /\ next_tid' = create_fail_tid(next_tid)
  /\ no_schedule(status, ready_list, ins_order, thread_ticks)
  /\ last' = Op("thread_create", TID_ERROR)
  /\ UNCHANGED <<threadVars, queueVars, idle_thread, ticks, intrVars, lockVars, procVars>>
  /\ UNCHANGED mlfqsVars
  /\ UNCHANGED <<vmVars, fsVars>>

\* thread_create when there is a page for the thread and none for its child
\* record: init_thread and allocate_tid have run, then info->child_id = tid
\* writes through a null pointer and the kernel stops in its page-fault handler
ThreadCreatePanic(p) ==
  /\ Running(current)
  /\ next_tid <= MaxThreads
  /\ next_tid' = next_tid + 1
  /\ priority' = [priority EXCEPT ![next_tid] = p]
  /\ old_priority' = [old_priority EXCEPT ![next_tid] = p]
  /\ nice' = [nice EXCEPT ![next_tid] = nice[current]]
  /\ recent_cpu' = [recent_cpu EXCEPT ![next_tid] = thread_get_recent_cpu(current)]
  /\ UNCHANGED <<thread_mlfqs, load_avg, recomputed>>
  /\ all_list' = all_list \cup {next_tid}
  /\ no_schedule([status EXCEPT ![next_tid] = "BLOCKED"], ready_list, ins_order, thread_ticks)
  /\ pc' = [pc EXCEPT ![current] = "panic", ![next_tid] = "run"]
  /\ intr_enabled' = FALSE
  /\ UNCHANGED <<intr_context, old_level, own_level>>
  /\ last' = Op("panic", next_tid)
  /\ UNCHANGED <<wakeup_time, locks, lock_waiting, sleep_list, idle_thread, ticks, lockVars,
                 procVars>>
  /\ UNCHANGED <<vmVars, fsVars>>

(***************************************************************************)
(* Preconditions: the ASSERTs at the head of an operation, and the fatal   *)
(* abort of a failed one.                                                  *)
(***************************************************************************)
\* thread_block: ASSERT (!intr_context ()); ASSERT (intr_get_level () == INTR_OFF)
block_precondition(in_intr, level) == ~in_intr /\ ~level

\* thread_yield without its ASSERT
yield_unchecked(in_intr) == TRUE

\* thread_yield: ASSERT (!intr_context ())
yield_precondition(in_intr) == ~in_intr

\* thread_exit: ASSERT (!intr_context ())
exit_precondition(in_intr) == ~in_intr

\* thread_unblock: ASSERT (t->status == THREAD_BLOCKED)
unblock_precondition(st) == st = "BLOCKED"

\* a failed ASSERT in function f: the kernel panics and halts with
\* interrupts off, nothing else is changed
abort(f) ==
  /\ pc' = [pc EXCEPT ![current] = "panic"]
  /\ intr_enabled' = FALSE
  /\ no_schedule(status, ready_list, ins_order, thread_ticks)
  /\ last' = Op("ASSERT", f)
  /\ UNCHANGED <<priority, old_priority, wakeup_time, locks, lock_waiting, queueVars, cpuVars,
                 intr_context, old_level, own_level, lockVars, procVars>>
  /\ UNCHANGED mlfqsVars

(***************************************************************************)
(* intr_disable and intr_enable called by a thread, and an external        *)
(* interrupt, whose handler runs on the stack of the thread it interrupts. *)
(***************************************************************************)
IntrDisable ==
  /\ Running(current)
  /\ intr_enabled
  /\ intr_enabled' = FALSE
  /\ own_level' = [own_level EXCEPT ![current] = FALSE]
  /\ no_schedule(status, ready_list, ins_order, thread_ticks)
  /\ last' = Op("intr_disable", NULL)
  /\ UNCHANGED <<threadVars, queueVars, cpuVars, intr_context, old_level, lockVars, procVars>>
  /\ UNCHANGED mlfqsVars
  /\ UNCHANGED <<vmVars, fsVars>>

IntrEnable ==
  /\ Running(current)
  /\ ~intr_enabled
  /\ intr_enabled' = TRUE
  /\ own_level' = [own_level EXCEPT ![current] = TRUE]
  /\ no_schedule(status, ready_list, ins_order, thread_ticks)
  /\ last' = Op("intr_enable", NULL)
  /\ UNCHANGED <<threadVars, queueVars, cpuVars, intr_context, old_level, lockVars, procVars>>
  /\ UNCHANGED mlfqsVars
  /\ UNCHANGED <<vmVars, fsVars>>

\* an external interrupt arrives while a thread is between two operations:
\* its handler starts, in interrupt context and with interrupts off
IntrHandlerEnter ==
  /\ Running(current)
  /\ intr_enabled
  /\ intr_context' = TRUE
  /\ intr_enabled' = FALSE
  /\ no_schedule(status, ready_list, ins_order, thread_ticks)
  /\ last' = Op("intr_handler", NULL)
  /\ UNCHANGED <<threadVars, queueVars, cpuVars, old_level, own_level, lockVars, procVars>>
  /\ UNCHANGED mlfqsVars
  /\ UNCHANGED <<vmVars, fsVars>>

\* the handler returns to the interrupted thread
IntrHandlerReturn ==
  /\ Calling
  /\ intr_context
  /\ intr_context' = FALSE
  /\ intr_enabled' = TRUE
  /\ no_schedule(status, ready_list, ins_order, thread_ticks)
  /\ last' = Op("intr_iret", NULL)
  /\ UNCHANGED <<threadVars, queueVars, cpuVars, old_level, own_level, lockVars, procVars>>
  /\ UNCHANGED mlfqsVars
  /\ UNCHANGED <<vmVars, fsVars>>

(***************************************************************************)
(* thread_start and the idle thread                                        *)
(***************************************************************************)
\* thread_start up to intr_enable (): create the idle thread
ThreadStartCreate ==
  /\ current = initial_thread
  /\ pc[current] = "boot"
  /\ thread_create(PRI_MIN, "idle_init", "start_wait")
  /\ intr_enabled' = TRUE
  /\ own_level' = [own_level EXCEPT ![current] = TRUE]
  /\ old_level' = [old_level EXCEPT ![current] = TRUE]
  /\ UNCHANGED intr_context
  /\ last' = Op("thread_start", next_tid)
  /\ UNCHANGED <<sleep_list, idle_thread, ticks, lockVars, finish_value, finish_waiters,
                 wait_child, finish_ups>>
  /\ UNCHANGED <<vmVars, fsVars>>

\* thread_start: sema_down (&idle_started)
ThreadStartWait ==
  /\ current = initial_thread
  /\ status[current] = "RUNNING"
  /\ pc[current] = "start_wait"
  /\ IF idle_started = 0
     THEN /\ schedule([status EXCEPT ![current] = "BLOCKED"], ready_list, ins_order)
          /\ UNCHANGED <<pc, idle_started>>
     ELSE /\ idle_started' = idle_started - 1
          /\ pc' = [pc EXCEPT ![current] = "run"]
          /\ no_schedule(status, ready_list, ins_order, thread_ticks)
  /\ last' = Op("sema_down", NULL)
  /\ UNCHANGED <<priority, old_priority, wakeup_time, locks, lock_waiting, queueVars,
                 cpuVars, holder, max_priority, sema_value, sema_waiters, procVars>>
  /\ UNCHANGED mlfqsVars
  /\ intr_return
  /\ UNCHANGED <<vmVars, fsVars>>

\* idle (): idle_thread = thread_current (); sema_up (idle_started)
IdleInit ==
  /\ status[current] = "RUNNING"
  /\ pc[current] = "idle_init"
  /\ idle_thread' = current
  /\ idle_started' = idle_started + 1
  /\ LET waiting == status[initial_thread] = "BLOCKED" /\ pc[initial_thread] = "start_wait"
         st == IF waiting THEN [status EXCEPT ![initial_thread] = "READY"] ELSE status
         rl == IF waiting THEN thread_unblock(ready_list, initial_thread, priority)
               ELSE ready_list
         ord == IF waiting THEN Stamp(ins_order, initial_thread) ELSE ins_order
     IN no_schedule(st, rl, ord, thread_ticks)
  /\ pc' = [pc EXCEPT ![current] = "idle_loop"]
  /\ last' = Op("idle_init", NULL)
  /\ UNCHANGED <<priority, old_priority, wakeup_time, locks, lock_waiting, queueVars,
                 next_tid, ticks, holder, max_priority, sema_value,
                 sema_waiters, procVars>>
  /\ UNCHANGED mlfqsVars
  /\ intr_return
  /\ UNCHANGED <<vmVars, fsVars>>

\* idle (): intr_disable (); thread_block (); when it runs again it is at
\* "sti; hlt"
IdleBlock ==
  /\ status[current] = "RUNNING"
  /\ pc[current] = "idle_loop"
  /\ schedule([status EXCEPT ![current] = "BLOCKED"], ready_list, ins_order)
  /\ pc' = [pc EXCEPT ![current] = "idle_hlt"]
  /\ last' = Op("thread_block", NULL)
  /\ UNCHANGED <<priority, old_priority, wakeup_time, locks, lock_waiting, queueVars,
                 cpuVars, lockVars, procVars>>
  /\ UNCHANGED mlfqsVars
  /\ intr_return
  /\ UNCHANGED <<vmVars, fsVars>>

(***************************************************************************)
(* thread_yield, thread_exit                                               *)
(***************************************************************************)
\* thread_yield (), called by a thread or by an interrupt handler
ThreadYield ==
  /\ Calling
  /\ IF yield_precondition(intr_context)
     THEN /\ thread_yield(status, ready_list, ins_order, priority)
          /\ last' = Op("thread_yield", NULL)
          /\ intr_return
          /\ UNCHANGED <<threadVars, queueVars, cpuVars, lockVars, procVars>>
          /\ UNCHANGED mlfqsVars
     ELSE abort("thread_yield")
  /\ UNCHANGED <<vmVars, fsVars>>

\* thread_exit without list_remove (&allelem)
exit_all_list_kept(al, t) == al

\* thread_exit: the all-threads registry without the caller
exit_all_list(al, t) == al \ {t}

\* thread_exit by a thread that holds no lock, or by an interrupt handler, up
\* to intr_disable (): sema_up (&sema_finish), which wakes the waiter of
\* highest priority and yields to it if it outranks the caller
ThreadExit ==
  /\ Calling
  /\ locks[current] = <<>>
  /\ IF exit_precondition(intr_context)
     THEN /\ LET ws == finish_waiters[current]
                 w == IF ws = <<>> THEN NULL ELSE sema_up_pick(ws, priority)
                 st == IF w = NULL THEN status ELSE [status EXCEPT ![w] = "READY"]
                 rl == IF w = NULL THEN ready_list ELSE thread_unblock(ready_list, w, priority)
                 ord == IF w = NULL THEN ins_order ELSE Stamp(ins_order, w)
             IN /\ finish_value' = [finish_value EXCEPT ![current] = @ + 1]
                /\ finish_ups' = [finish_ups EXCEPT ![current] = @ + 1]
                /\ finish_waiters' = [finish_waiters EXCEPT
                                        ![current] = IF w = NULL THEN ws ELSE list_remove(ws, w)]
                /\ thread_cond_yield(st, rl, ord, priority)
          /\ pc' = [pc EXCEPT ![current] = "exit_mid"]
          /\ last' = Op("sema_up", current)
          /\ intr_return
          /\ UNCHANGED <<priority, old_priority, wakeup_time, locks, lock_waiting, queueVars,
                         cpuVars, lockVars, child_list, wait_child>>
          /\ UNCHANGED mlfqsVars
     ELSE abort("thread_exit")
  /\ UNCHANGED <<vmVars, fsVars>>

\* thread_exit from intr_disable () on: leave the all-threads registry,
\* become DYING, schedule ()
ThreadExitDie ==
  /\ status[current] = "RUNNING"
  /\ pc[current] = "exit_mid"
  /\ all_list' = exit_all_list(all_list, current)
  /\ schedule([status EXCEPT ![current] = "DYING"], ready_list, ins_order)
  /\ pc' = [pc EXCEPT ![current] = "dead"]
  /\ last' = Op("thread_exit", NULL)
  /\ UNCHANGED <<priority, old_priority, wakeup_time, locks, lock_waiting, sleep_list,
                 cpuVars, lockVars, procVars>>
  /\ UNCHANGED mlfqsVars
  /\ intr_return
  /\ UNCHANGED <<vmVars, fsVars>>

(***************************************************************************)
(* thread_block and thread_unblock called directly.                        *)
(***************************************************************************)
\* thread_block (), called by a thread or by an interrupt handler
ThreadBlock ==
  /\ Calling
  /\ IF block_precondition(intr_context, intr_enabled)
     THEN /\ schedule([status EXCEPT ![current] = "BLOCKED"], ready_list, ins_order)
          /\ pc' = [pc EXCEPT ![current] = "unblock_wait"]
          /\ last' = Op("thread_block", NULL)
          /\ intr_return
          /\ UNCHANGED <<priority, old_priority, wakeup_time, locks, lock_waiting, queueVars,
                         cpuVars, lockVars, procVars>>
          /\ UNCHANGED mlfqsVars
     ELSE abort("thread_block")
  /\ UNCHANGED <<vmVars, fsVars>>

\* the caller's idiom: intr_disable (); thread_block (); intr_set_level (old_level)
ThreadBlockMasked ==
  /\ Running(current)
  /\ schedule([status EXCEPT ![current] = "BLOCKED"], ready_list, ins_order)
  /\ pc' = [pc EXCEPT ![current] = "unblock_wait"]
  /\ last' = Op("thread_block", NULL)
  /\ intr_return
  /\ UNCHANGED <<priority, old_priority, wakeup_time, locks, lock_waiting, queueVars,
                 cpuVars, lockVars, procVars>>
  /\ UNCHANGED mlfqsVars
  /\ UNCHANGED <<vmVars, fsVars>>

\* thread_unblock (t) with the dispatch of thread_yield at its end
unblock_return_yield(st, rl, ord, tt) == thread_yield(st, rl, ord, priority)

\* thread_unblock (t): intr_set_level (old_level) and return, no dispatch
unblock_return(st, rl, ord, tt) == no_schedule(st, rl, ord, tt)

\* thread_unblock (t), called by a thread or by an interrupt handler; t is a
\* thread blocked by thread_block, or a thread that is not blocked at all
ThreadUnblock(t) ==
  /\ Calling
  /\ status[t] \in {"BLOCKED", "READY", "RUNNING"}
  /\ status[t] = "BLOCKED" => pc[t] = "unblock_wait"
  /\ IF unblock_precondition(status[t])
     THEN /\ unblock_return([status EXCEPT ![t] = "READY"],
                            thread_unblock(ready_list, t, priority),
                            Stamp(ins_order, t), thread_ticks)
          /\ pc' = [pc EXCEPT ![t] = "run"]
          /\ last' = Op("thread_unblock", t)
          /\ intr_return
          /\ UNCHANGED <<priority, old_priority, wakeup_time, locks, lock_waiting, queueVars,
                         cpuVars, lockVars, procVars>>
          /\ UNCHANGED mlfqsVars
     ELSE abort("thread_unblock")
  /\ UNCHANGED <<vmVars, fsVars>>

(***************************************************************************)
(* The wait of a parent for a child: get_child_info and sema_down on the   *)
(* semaphore the record points to.                                         *)
(***************************************************************************)
\* the values a read of the sema_finish of thread c can give: the semaphore
\* is in c's page, and once that page has been freed the read may find what
\* was left there or the zeroes of a page handed out again
sema_finish_read(c) ==
  IF freed[c] = 0 THEN {finish_value[c]} ELSE {finish_value[c], 0}

\* a wait for child c, one waiter per child at a time: look the record up
\* by tid
ProcessWait(c) ==
  /\ Running(current)
  /\ c # current
  /\ c # idle_thread
  /\ get_child_info(child_list, c) # NoChildInfo
  /\ \A p \in Threads : wait_child[p] # c
  /\ wait_child' = [wait_child EXCEPT ![current] = c]
  /\ pc' = [pc EXCEPT ![current] = "wait_down"]
  /\ no_schedule(status, ready_list, ins_order, thread_ticks)
  /\ last' = Op("get_child_info", c)
  /\ UNCHANGED <<priority, old_priority, wakeup_time, locks, lock_waiting, queueVars,
                 cpuVars, lockVars, child_list, finish_value, finish_waiters, finish_ups>>
  /\ UNCHANGED mlfqsVars
  /\ UNCHANGED intrVars
  /\ UNCHANGED <<vmVars, fsVars>>

\* the wait: sema_down (info->sema_finish), entered after the lookup and
\* again each time the waiter is woken
ProcessSemaDown ==
  /\ status[current] = "RUNNING"
  /\ pc[current] = "wait_down"
  /\ LET c == get_child_info(child_list, wait_child[current]).child_thread
     IN \E v \in sema_finish_read(c) :
          IF v > 0
          THEN /\ finish_value' = [finish_value EXCEPT ![c] = v - 1]
               /\ wait_child' = [wait_child EXCEPT ![current] = NULL]
               /\ pc' = [pc EXCEPT ![current] = "run"]
               /\ no_schedule(status, ready_list, ins_order, thread_ticks)
               /\ last' = Op("process_wait", c)
               /\ UNCHANGED finish_waiters
          ELSE /\ finish_waiters' = [finish_waiters EXCEPT ![c] = Append(@, current)]
               /\ schedule([status EXCEPT ![current] = "BLOCKED"], ready_list, ins_order)
               /\ last' = Op("thread_block", c)
               /\ UNCHANGED <<finish_value, wait_child, pc>>
  /\ UNCHANGED <<priority, old_priority, wakeup_time, locks, lock_waiting, queueVars,
                 cpuVars, lockVars, child_list, finish_ups>>
  /\ UNCHANGED mlfqsVars
  /\ intr_return
  /\ UNCHANGED <<vmVars, fsVars>>

(***************************************************************************)
(* thread_sleep, thread_tick, thread_wakeup                                *)
(***************************************************************************)
\* thread_sleep (n) up to intr_disable (): wakeup_time = timer_ticks () + n
ThreadSleepCall(n) ==
  /\ Running(current)
  /\ current # idle_thread
  /\ wakeup_time' = [wakeup_time EXCEPT ![current] = ticks + n]
  /\ pc' = [pc EXCEPT ![current] = "sleep_mid"]
  /\ no_schedule(status, ready_list, ins_order, thread_ticks)
  /\ last' = Op("thread_sleep", n)
  /\ UNCHANGED <<priority, old_priority, locks, lock_waiting, queueVars, cpuVars, lockVars, procVars>>
  /\ UNCHANGED mlfqsVars
  /\ UNCHANGED intrVars
  /\ UNCHANGED <<vmVars, fsVars>>

\* thread_sleep with list_push_back in place of list_insert_ordered
sleep_insert_back(sl, t, wt) == Append(sl, t)

\* thread_sleep: the sleep queue after list_insert_ordered
sleep_insert(sl, t, wt) == InsertAscending(sl, t, wt)

\* thread_sleep from intr_disable () on: insert in the sleep queue and block
ThreadSleepBlock ==
  /\ status[current] = "RUNNING"
  /\ pc[current] = "sleep_mid"
  /\ sleep_list' = sleep_insert(sleep_list, current, wakeup_time)
  /\ schedule([status EXCEPT ![current] = "BLOCKED"], ready_list, ins_order)
  /\ pc' = [pc EXCEPT ![current] = "run"]
  /\ last' = Op("thread_block", NULL)
  /\ UNCHANGED <<priority, old_priority, wakeup_time, locks, lock_waiting, all_list,
                 cpuVars, lockVars, procVars>>
  /\ UNCHANGED mlfqsVars
  /\ intr_return
  /\ UNCHANGED <<vmVars, fsVars>>

\* thread_wakeup: how many entries at the front of the sleep queue it removes
\* at tick now (the scan stops at the first wakeup_time > now)
wakeup_count(sl, wt, now) ==
  LET later == { i \in 1 .. Len(sl) : wt[sl[i]] > now }
  IN IF later = {} THEN Len(sl) ELSE Min(later) - 1

\* thread_wakeup: the ready queue after thread_unblock of each of woken, in order
RECURSIVE unblock_each(_, _, _)
unblock_each(rl, woken, pr) ==
  IF woken = <<>> THEN rl
  ELSE unblock_each(thread_unblock(rl, Head(woken), pr), Tail(woken), pr)

RECURSIVE stamp_each(_, _)
stamp_each(ord, woken) ==
  IF woken = <<>> THEN ord ELSE stamp_each(Stamp(ord, Head(woken)), Tail(woken))

\* thread_tick asking for the yield one tick late
time_slice_late(tt) == tt > TIME_SLICE

\* thread_tick: whether it calls intr_yield_on_return, tt being the value of
\* ++thread_ticks
time_slice_over(tt) == tt >= TIME_SLICE

\* the timer interrupt: ticks++, thread_tick (with thread_wakeup), and on
\* return from the interrupt the thread_yield that thread_tick asked for
TimerInterrupt ==
  /\ intr_enabled
  /\ ticks < MaxTicks
  /\ LET now == ticks + 1
         tt == thread_ticks + 1
         k == wakeup_count(sleep_list, wakeup_time, now)
         woken == SubSeq(sleep_list, 1, k)
         st == [t \in Threads |-> IF t \in Range(woken) THEN "READY" ELSE status[t]]
         rl0 == unblock_each(ready_list, woken, priority)
         ord == stamp_each(ins_order, woken)
         \* if (thread_mlfqs): the statistics, by the timer interrupt handler
         second == thread_mlfqs /\ now % TIMER_FREQ = 0
         fourth == thread_mlfqs /\ now % 4 = 0
         rc0 == IF thread_mlfqs THEN increase_recent_cpu(recent_cpu) ELSE recent_cpu
         la == IF second THEN update_load_avg(rl0) ELSE load_avg
         rc == IF second
               THEN update_recent_cpu_for_each(rc0, nice, all_list)
               ELSE rc0
         pr == IF fourth
               THEN update_priority_for_each(priority, rc, nice, all_list)
               ELSE priority
         rl == IF fourth THEN list_sort(<<>>, rl0, pr) ELSE rl0
     IN /\ ticks' = now
        /\ sleep_list' = SubSeq(sleep_list, k + 1, Len(sleep_list))
        /\ wakeup_time' = [t \in Threads |-> IF t \in Range(woken) THEN 0 ELSE wakeup_time[t]]
        /\ recent_cpu' = rc
        /\ load_avg' = la
        /\ priority' = pr
        /\ recomputed' = IF fourth
                         THEN update_recomputed_for_each(recomputed, rc, nice, all_list)
                         ELSE recomputed
        /\ IF time_slice_over(tt)
           THEN thread_yield(st, rl, ord, pr)
           ELSE no_schedule(st, rl, ord, tt)
        /\ last' = Op("thread_tick", woken)
  /\ pc' = IF pc[current] = "idle_hlt" THEN [pc EXCEPT ![current] = "idle_loop"] ELSE pc
  /\ UNCHANGED <<old_priority, locks, lock_waiting, all_list, idle_thread,
                 next_tid, lockVars, procVars, thread_mlfqs, nice>>
  /\ intr_return
  /\ UNCHANGED <<vmVars, fsVars>>

(***************************************************************************)
(* thread_set_priority                                                     *)
(***************************************************************************)
\* thread_set_priority: whether the new priority is applied at once
set_priority_now(lk, p, n) == lk = <<>> \/ n > p

ThreadSetPriority(n) ==
  /\ Running(current)
  /\ IF n > PRI_MAX \/ n < PRI_MIN \/ thread_mlfqs
     THEN /\ UNCHANGED <<priority, old_priority>>
          /\ no_schedule(status, ready_list, ins_order, thread_ticks)
     ELSE /\ old_priority' = [old_priority EXCEPT ![current] = n]
          /\ IF set_priority_now(locks[current], priority[current], n)
             THEN /\ priority' = [priority EXCEPT ![current] = n]
                  /\ thread_yield(status, ready_list, ins_order, priority')
             ELSE /\ priority' = priority
                  /\ no_schedule(status, ready_list, ins_order, thread_ticks)
  /\ last' = Op("thread_set_priority", n)
  /\ UNCHANGED <<wakeup_time, locks, lock_waiting, pc, queueVars, cpuVars, lockVars, procVars>>
  /\ UNCHANGED mlfqsVars
  /\ intr_return
  /\ UNCHANGED <<vmVars, fsVars>>

(***************************************************************************)
(* thread_set_nice                                                         *)
(***************************************************************************)
\* thread_set_nice (n) up to t->nice = nice; the function never masks
\* interrupts, so the timer interrupt is free to fire before the recompute
ThreadSetNice(n) ==
  /\ Running(current)
  /\ IF n > NICE_MAX \/ n < NICE_MIN \/ current = idle_thread
     THEN UNCHANGED <<nice, pc>>
     ELSE /\ nice' = [nice EXCEPT ![current] = n]
          /\ pc' = [pc EXCEPT ![current] = "set_nice_mid"]
  /\ no_schedule(status, ready_list, ins_order, thread_ticks)
  /\ last' = Op("thread_set_nice", n)
  /\ UNCHANGED <<priority, old_priority, wakeup_time, locks, lock_waiting, queueVars, cpuVars,
                 lockVars, procVars, thread_mlfqs, recent_cpu, load_avg, recomputed>>
  /\ UNCHANGED intrVars
  /\ UNCHANGED <<vmVars, fsVars>>

\* thread_set_nice from update_priority (t) on: the caller is RUNNING, so the
\* branch taken is thread_cond_yield
ThreadSetNiceUpdate ==
  /\ status[current] = "RUNNING"
  /\ pc[current] = "set_nice_mid"
  /\ LET pr == update_priority(priority, recent_cpu, nice, current)
     IN /\ priority' = pr
        /\ recomputed' = update_recomputed(recomputed, recent_cpu, nice, current)
        /\ thread_cond_yield(status, ready_list, ins_order, pr)
  /\ pc' = [pc EXCEPT ![current] = "run"]
  /\ last' = Op("update_priority", nice[current])
  /\ UNCHANGED <<old_priority, wakeup_time, locks, lock_waiting, queueVars, cpuVars,
                 lockVars, procVars, thread_mlfqs, nice, recent_cpu, load_avg>>
  /\ intr_return
  /\ UNCHANGED <<vmVars, fsVars>>

(***************************************************************************)
(* Locks: thread_hold_the_lock, thread_donate_priority, thread_remove_lock *)
(* and the lock_acquire and lock_release that call them.                   *)
(***************************************************************************)
\* thread_hold_the_lock (l): the caller's list of held locks
thread_hold_the_lock(lk, l, mp) == InsertDescending(lk, l, mp)

\* thread_donate_priority giving the lowest priority instead of the caller's
donate_priority_min(pr, t) == [pr EXCEPT ![t] = PRI_MIN]

\* thread_donate_priority (t): the priorities it leaves
donate_priority(pr, t) == [pr EXCEPT ![t] = pr[current]]

\* thread_donate_priority without the re-insertion of a READY thread
donate_ready_in_place(rl, t, pr) == rl

\* thread_donate_priority (t): the ready queue it leaves, pr being the
\* priorities after the donation
donate_ready(rl, t, pr) ==
  IF status[t] = "READY" THEN InsertDescending(list_remove(rl, t), t, pr) ELSE rl

donate_order(ord, t) == IF status[t] = "READY" THEN Stamp(ord, t) ELSE ord

\* lock_acquire on a held lock, before sema_down: the lock records the
\* waiter's priority and the holder is raised to it; the same again for the
\* lock that holder waits for, one link at a time
RECURSIVE donate_chain(_, _, _, _, _)
donate_chain(l, pr, rl, ord, mp) ==
  IF l = NULL \/ holder[l] = NULL
  THEN [pr |-> pr, rl |-> rl, ord |-> ord, mp |-> mp, to |-> <<>>]
  ELSE LET h == holder[l]
           mp1 == [mp EXCEPT ![l] = IF pr[current] > mp[l] THEN pr[current] ELSE mp[l]]
       IN IF pr[current] > pr[h]
          THEN LET pr1 == donate_priority(pr, h)
                   up == donate_chain(lock_waiting[h], pr1, donate_ready(rl, h, pr1),
                                      donate_order(ord, h), mp1)
               IN [up EXCEPT !.to = <<h>> \o up.to]
          ELSE [pr |-> pr, rl |-> rl, ord |-> ord, mp |-> mp1, to |-> <<>>]

\* lock_acquire once sema_down has succeeded: the caller becomes the holder;
\* the lock starts with its holder's priority as max_priority
lock_take(l) ==
  LET mp == [max_priority EXCEPT ![l] = priority[current]]
  IN /\ max_priority' = mp
     /\ locks' = [locks EXCEPT ![current] = thread_hold_the_lock(locks[current], l, mp)]
     /\ holder' = [holder EXCEPT ![l] = current]
     /\ lock_waiting' = [lock_waiting EXCEPT ![current] = NULL]
     /\ sema_value' = [sema_value EXCEPT ![l] = @ - 1]
     /\ pc' = [pc EXCEPT ![current] = "run"]
     /\ no_schedule(status, ready_list, ins_order, thread_ticks)
     /\ last' = Op("thread_hold_the_lock", l)
     /\ UNCHANGED <<priority, sema_waiters>>

\* lock_acquire (l) by a thread that does not hold l, up to sema_down: a free
\* lock is taken at once, on a held lock the caller donates
LockAcquire(l) ==
  /\ Running(current)
  /\ holder[l] # current
  /\ IF holder[l] = NULL
     THEN /\ sema_value[l] > 0
          /\ lock_take(l)
     ELSE LET d == donate_chain(l, priority, ready_list, ins_order, max_priority)
          IN /\ priority' = d.pr
             /\ max_priority' = d.mp
             /\ lock_waiting' = [lock_waiting EXCEPT ![current] = l]
             /\ pc' = [pc EXCEPT ![current] = "sema_down"]
             /\ no_schedule(status, d.rl, d.ord, thread_ticks)
             /\ last' = Op(IF d.to = <<>> THEN "lock_acquire" ELSE "thread_donate_priority",
                           d.to)
             /\ UNCHANGED <<locks, holder, sema_value, sema_waiters>>
  /\ UNCHANGED <<old_priority, wakeup_time, queueVars, cpuVars, idle_started, procVars>>
  /\ UNCHANGED mlfqsVars
  /\ intr_return
  /\ UNCHANGED <<vmVars, fsVars>>

\* lock_acquire: sema_down on the lock's semaphore, entered after the
\* donation and again each time the waiter is woken
LockSemaDown ==
  /\ status[current] = "RUNNING"
  /\ pc[current] = "sema_down"
  /\ LET l == lock_waiting[current]
     IN IF sema_value[l] > 0
        THEN lock_take(l)
        ELSE /\ sema_waiters' = [sema_waiters EXCEPT ![l] = Append(@, current)]
             /\ schedule([status EXCEPT ![current] = "BLOCKED"], ready_list, ins_order)
             /\ last' = Op("thread_block", l)
             /\ UNCHANGED <<priority, max_priority, locks, holder, lock_waiting,
                            sema_value, pc>>
  /\ UNCHANGED <<old_priority, wakeup_time, queueVars, cpuVars, idle_started, procVars>>
  /\ UNCHANGED mlfqsVars
  /\ intr_return
  /\ UNCHANGED <<vmVars, fsVars>>

\* thread_remove_lock (l): the caller's list of held locks
remove_lock_list(lk, l) == list_remove(lk, l)

\* thread_remove_lock without the reset to old_priority
remove_lock_priority_kept(lk, op, p, mp) ==
  IF lk = <<>> THEN p
  ELSE IF mp[Head(lk)] > op THEN mp[Head(lk)] ELSE p

\* thread_remove_lock: the caller's priority, lk being its list after the
\* removal, op its old_priority and p its priority before the call
remove_lock_priority(lk, op, p, mp) ==
  IF lk = <<>> THEN op
  ELSE IF mp[Head(lk)] > op THEN mp[Head(lk)] ELSE p

\* lock_release (l) by its holder
LockRelease(l) ==
  /\ Running(current)
  /\ holder[l] = current
  /\ LET lk == remove_lock_list(locks[current], l)
         pr == [priority EXCEPT
                  ![current] = remove_lock_priority(lk, old_priority[current],
                                                    priority[current], max_priority)]
         ws == sema_waiters[l]
         w == IF ws = <<>> THEN NULL ELSE sema_up_pick(ws, pr)
         st == IF w = NULL THEN status ELSE [status EXCEPT ![w] = "READY"]
         rl == IF w = NULL THEN ready_list ELSE thread_unblock(ready_list, w, pr)
         ord == IF w = NULL THEN ins_order ELSE Stamp(ins_order, w)
     IN /\ locks' = [locks EXCEPT ![current] = lk]
        /\ priority' = pr
        /\ holder' = [holder EXCEPT ![l] = NULL]
        /\ sema_value' = [sema_value EXCEPT ![l] = @ + 1]
        /\ sema_waiters' = [sema_waiters EXCEPT ![l] = IF w = NULL THEN ws ELSE list_remove(ws, w)]
        /\ thread_cond_yield(st, rl, ord, pr)
        /\ last' = Op("thread_remove_lock", l)
  /\ UNCHANGED <<old_priority, wakeup_time, lock_waiting, pc, max_priority, queueVars,
                 cpuVars, idle_started, procVars>>
  /\ UNCHANGED mlfqsVars
  /\ intr_return
  /\ UNCHANGED <<vmVars, fsVars>>

(***************************************************************************)
(* The scheduler with MLFQS off.                                           *)
(***************************************************************************)
Next ==
  \/ ThreadStartCreate
  \/ ThreadStartWait
  \/ IdleInit
  \/ IdleBlock
  \/ \E p \in InputPriorities : ThreadCreate(p)
  \/ ThreadYield
  \/ ThreadExit
  \/ ThreadExitDie
  \/ \E n \in 1 .. MaxSleep : ThreadSleepCall(n)
  \/ ThreadSleepBlock
  \/ TimerInterrupt
  \/ \E n \in SetPriorityInputs : ThreadSetPriority(n)
  \/ \E l \in TimedLocks : LockAcquire(l)
  \/ LockSemaDown
  \/ \E l \in TimedLocks : LockRelease(l)

Spec == Init /\ [][Next]_vars

(***************************************************************************)
(* The same scheduler with every lock in use and no timer interrupt: the   *)
(* threads give up the CPU only by their own calls.                        *)
(***************************************************************************)
NextDonation ==
  \/ ThreadStartCreate
  \/ ThreadStartWait
  \/ IdleInit
  \/ IdleBlock
  \/ \E p \in InputPriorities : ThreadCreate(p)
  \/ ThreadYield
  \/ ThreadExit
  \/ ThreadExitDie
  \/ \E n \in SetPriorityInputs : ThreadSetPriority(n)
  \/ \E l \in Locks : LockAcquire(l)
  \/ LockSemaDown
  \/ \E l \in Locks : LockRelease(l)

SpecDonation == Init /\ [][NextDonation]_vars

(***************************************************************************)
(* The life of threads without locks and without the timer: creation by a  *)
(* creator of low priority, with and without a page to be had, direct      *)
(* thread_block and thread_unblock, exit and the wait of a parent.         *)
(***************************************************************************)
NextLifecycle ==
  \/ ThreadStartCreate
  \/ ThreadStartWait
  \/ IdleInit
  \/ IdleBlock
  \/ \E p \in ScenarioPriorities : ThreadCreate(p)
  \/ ThreadCreateFail
  \/ \E p \in ScenarioPriorities : ThreadCreatePanic(p)
  \/ \E n \in ScenarioPriorities : ThreadSetPriority(n)
  \/ ThreadBlockMasked
  \/ \E t \in Threads : ThreadUnblock(t)
  \/ ThreadSleepCall(MaxSleep)
  \/ ThreadSleepBlock
  \/ ThreadExit
  \/ ThreadExitDie
  \/ \E c \in Threads : ProcessWait(c)
  \/ ProcessSemaDown

SpecLifecycle == Init /\ [][NextLifecycle]_vars

(***************************************************************************)
(* Both schedulers: the kernel started with or without -mlfqs, with the    *)
(* statistics of a kernel that has been up for some time.                  *)
(***************************************************************************)
InitMlfqs ==
  \/ thread_init(FALSE, 0, 0)
  \/ \E s \in StatisticsInputs : thread_init(TRUE, s.recent_cpu, s.load_avg)

NextMlfqs ==
  \/ ThreadStartCreate
  \/ ThreadStartWait
  \/ IdleInit
  \/ IdleBlock
  \/ ThreadCreate(PRI_DEFAULT)
  \/ TimerInterrupt
  \/ \E n \in RangePriorityInputs : ThreadSetPriority(n)
  \/ \E n \in NiceInputs : ThreadSetNice(n)
  \/ ThreadSetNiceUpdate

SpecMlfqs == InitMlfqs /\ [][NextMlfqs]_vars

(***************************************************************************)
(* The kernel started with -mlfqs, its threads taking and releasing locks, *)
(* without the timer.                                                      *)
(***************************************************************************)
InitMlfqsDonation == thread_init(TRUE, 0, 0)

SpecMlfqsDonation == InitMlfqsDonation /\ [][NextDonation]_vars

(***************************************************************************)
(* The kernel started with -mlfqs, from boot (all statistics 0), with the  *)
(* timer and thread_set_nice.                                              *)
(***************************************************************************)
SpecMlfqsBoot == InitMlfqsDonation /\ [][NextMlfqs]_vars

(***************************************************************************)
(* Threads and the handler of an external interrupt calling thread_block,  *)
(* thread_unblock, thread_yield and thread_exit, with interrupts on and    *)
(* off: no locks, no timer.                                                *)
(***************************************************************************)
NextInterrupts ==
  \/ ThreadStartCreate
  \/ ThreadStartWait
  \/ IdleInit
  \/ IdleBlock
  \/ \E p \in InputPriorities : ThreadCreate(p)
  \/ ThreadYield
  \/ ThreadBlock
  \/ \E t \in Threads : ThreadUnblock(t)
  \/ ThreadExit
  \/ ThreadExitDie
  \/ IntrDisable
  \/ IntrEnable
  \/ IntrHandlerEnter
  \/ IntrHandlerReturn

SpecInterrupts == Init /\ [][NextInterrupts]_vars

(***************************************************************************)
(* The scheduler with MLFQS off, the timer and one lock, its threads       *)
(* calling intr_disable and intr_enable around the operations.             *)
(***************************************************************************)
NextLevels ==
  \/ ThreadStartCreate
  \/ ThreadStartWait
  \/ IdleInit
  \/ IdleBlock
  \/ ThreadCreate(PRI_DEFAULT)
  \/ ThreadYield
  \/ ThreadSleepCall(1)
  \/ ThreadSleepBlock
  \/ TimerInterrupt
  \/ \E n \in LevelPriorityInputs : ThreadSetPriority(n)
  \/ \E l \in TimedLocks : LockAcquire(l)
  \/ LockSemaDown
  \/ \E l \in TimedLocks : LockRelease(l)
  \/ IntrDisable
  \/ IntrEnable

SpecLevels == Init /\ [][NextLevels]_vars

(***************************************************************************)
(* The frame table and the swap slots, used by the running thread.         *)
(***************************************************************************)
NextVm ==
  \/ \E acc \in SUBSET Frames, to_file \in BOOLEAN : FrameGet(acc, to_file)
  \/ \E f \in Frames, same \in BOOLEAN : FrameFree(f, same)
  \/ \E f \in Frames : FrameSetUnswapable(f)
  \/ SwapStore
  \/ \E i \in SwapIndexes : SwapFree(i)
  \/ \E i \in SwapIndexes : SwapLoad(i)

SpecVm == Init /\ [][NextVm]_vars

(***************************************************************************)
(* Directories being created, filled and emptied.                          *)
(***************************************************************************)
NextFs ==
  \/ \E s \in DirSectors, n \in EntryCounts, u \in BOOLEAN : DirCreate(s, n, u)
  \/ \E d \in DirSectors, n \in Names, s \in DirSectors \cup FileSectors,
        u \in BOOLEAN, g \in BOOLEAN : DirAdd(d, n, s, u, g)
  \/ \E d \in DirSectors, n \in Names : DirRemove(d, n)

SpecFs == Init /\ [][NextFs]_vars

(***************************************************************************)
(* Properties.                                                             *)
(***************************************************************************)
Created(t) == status[t] # "NONE"
InReady(t) == t \in Range(ready_list)
InSleep(t) == t \in Range(sleep_list)
\* the thread that runs idle (), created by thread_start
IsIdle(t) == pc[t] \in {"idle_init", "idle_loop", "idle_hlt"}

ReadySorted ==
  \A i, j \in 1 .. Len(ready_list) :
    i < j => priority[ready_list[i]] >= priority[ready_list[j]]

ReadyFifo ==
  /\ Range(ins_order) = Range(ready_list)
  /\ \A i, j \in 1 .. Len(ready_list) :
       (i < j /\ priority[ready_list[i]] = priority[ready_list[j]])
         => IndexOf(ins_order, ready_list[i]) < IndexOf(ins_order, ready_list[j])

\* C1: with MLFQS off, after every completed operation (thread_create,
\* thread_block, thread_unblock, thread_yield, thread_donate_priority, in any
\* order) the ready queue is in non-increasing priority order and threads of
\* equal priority stand in the order of their last insertion; this includes
\* the state right after a donation to a READY thread.
C1_ReadyQueueOrdered == ReadySorted /\ ReadyFifo

\* C1 witness: a READY thread has just received a donation and stands in the
\* ready queue ahead of a thread of lower priority that it was not ahead of
\* by its own priority.
C1_Witness ==
  /\ last.op = "thread_donate_priority"
  /\ \E i, j \in 1 .. Len(ready_list) :
       /\ i < j
       /\ ready_list[i] \in Range(last.arg)
       /\ status[ready_list[i]] = "READY"
       /\ priority[ready_list[i]] > old_priority[ready_list[i]]
       /\ old_priority[ready_list[i]] <= priority[ready_list[j]]

C4_AsStated ==
  dispatch.happened => (IsIdle(dispatch.next) <=> dispatch.ready = <<>>)

\* C4 amended: at every dispatch after the idle thread has set idle_thread,
\* the idle thread is selected if and only if the ready queue is empty at
\* that moment; before that the idle thread is in the ready queue and is
\* selected from it.
C4_Amended ==
  (dispatch.happened /\ idle_thread # NULL) =>
    (IsIdle(dispatch.next) <=> dispatch.ready = <<>>)

\* C4 witness: with idle_thread set, the idle thread was dispatched from an
\* empty ready queue while another thread sleeps.
C4_Witness ==
  /\ dispatch.happened
  /\ idle_thread # NULL
  /\ dispatch.next = idle_thread
  /\ dispatch.ready = <<>>
  /\ dispatch.prev # idle_thread
  /\ sleep_list # <<>>

\* the largest of a thread's old_priority and the max_priority of its locks
DonatedPriority(t) ==
  Max({old_priority[t]} \cup { max_priority[l] : l \in Range(locks[t]) })

\* C5 as stated: with MLFQS off, in every reachable state a thread that holds
\* a lock has priority = max(old_priority, largest max_priority of its locks)
\* and a thread that holds no lock has priority = old_priority.
C5_AsStated ==
  \A t \in Threads :
    Created(t) =>
      IF locks[t] # <<>>
      THEN priority[t] = DonatedPriority(t)
      ELSE priority[t] = old_priority[t]

\* C6: when H, of higher priority, donates to L, which holds exactly one lock,
\* L's priority becomes H's; when L releases its only lock its priority is
\* its base priority old_priority again.
C6_DonateThenRestore ==
  /\ (last.op = "thread_donate_priority" /\ Len(locks[last.arg[1]]) = 1)
       => /\ priority[last.arg[1]] = last.was
          /\ last.was > old_priority[last.arg[1]]
  /\ (last.op = "thread_remove_lock" /\ locks[last.caller] = <<>>)
       => priority[last.caller] = old_priority[last.caller]

\* C6 witness: a thread that ran at a donated priority has released its only
\* lock and is back at its base priority; the donor waits for that lock.
C6_Witness ==
  /\ last.op = "thread_remove_lock"
  /\ locks[last.caller] = <<>>
  /\ last.was > old_priority[last.caller]
  /\ priority[last.caller] = old_priority[last.caller]
  /\ \E w \in Threads : lock_waiting[w] = last.arg /\ priority[w] = last.was

\* C7 as stated: when a thread releases a lock and still holds others,
\* thread_remove_lock leaves its priority = max(old_priority, highest
\* max_priority of the locks it still holds).
C7_AsStated ==
  (last.op = "thread_remove_lock" /\ locks[last.caller] # <<>>)
    => priority[last.caller] = DonatedPriority(last.caller)

\* C8 as stated: thread_set_priority (n), n in range, records n as
\* old_priority; priority becomes n at once iff the caller holds no lock or n
\* is above its priority, and is unchanged otherwise; the new base takes
\* effect when the donating locks are released, that is, a release that
\* leaves no lock with max_priority above old_priority leaves priority =
\* old_priority.
C8_AsStated ==
  /\ (last.op = "thread_set_priority" /\ last.arg >= PRI_MIN /\ last.arg <= PRI_MAX)
       => /\ old_priority[last.caller] = last.arg
          /\ priority[last.caller] =
               IF locks[last.caller] = <<>> \/ last.arg > last.was
               THEN last.arg ELSE last.was
  /\ (last.op = "thread_remove_lock"
        /\ \A l \in Range(locks[last.caller]) :
             max_priority[l] <= old_priority[last.caller])
       => priority[last.caller] = old_priority[last.caller]

\* C9 as stated: a thread that called thread_sleep (N) at tick T, so that
\* its wakeup_time is T + N, is in the sleep queue and BLOCKED at every tick
\* before T + N and is made READY during the tick at which the counter first
\* reaches T + N, for every interleaving of timer interrupts with the call:
\* no step leaves a thread in the sleep queue whose wakeup_time is <= the
\* tick counter, and a tick that stays below a sleeper's wakeup_time leaves
\* it BLOCKED.
C9_AsStated ==
  [][\A t \in Threads :
       /\ (t \in Range(sleep_list'))
            => status'[t] = "BLOCKED" /\ wakeup_time'[t] > ticks'
       /\ (InSleep(t) /\ ticks' = ticks + 1)
            => IF ticks' < wakeup_time[t]
               THEN status'[t] = "BLOCKED"
               ELSE status'[t] \in {"READY", "RUNNING"}]_vars

SleepSorted ==
  \A i, j \in 1 .. Len(sleep_list) :
    i < j => wakeup_time[sleep_list[i]] <= wakeup_time[sleep_list[j]]

\* C10: the sleep queue is always in non-decreasing wakeup_time order, and
\* the scan of a timer tick leaves no thread in it whose wakeup_time is <= the
\* tick counter.
C10_SleepQueueSorted ==
  /\ SleepSorted
  /\ last.op = "thread_tick" => \A t \in Range(sleep_list) : wakeup_time[t] > ticks

\* C10 witness: a tick woke the front of the sleep queue and stopped at a
\* thread whose wakeup_time is still in the future.
C10_Witness ==
  /\ last.op = "thread_tick"
  /\ last.arg # <<>>
  /\ sleep_list # <<>>
  /\ wakeup_time[Head(sleep_list)] > ticks

\* C12 as stated: whenever a thread has become READY with a priority above
\* the running thread's (by thread_unblock, the wakeup of a sleeper included,
\* by thread_create or by donation), the running thread yields before the
\* next timer tick: no tick arrives while a thread other than the idle
\* thread runs and a thread of higher priority stands in the ready queue.
C12_AsStated ==
  [][(ticks' = ticks + 1 /\ status[current] = "RUNNING" /\ ~IsIdle(current))
       => \A t \in Range(ready_list) : priority[t] <= priority[current]]_vars

\* C19: the page of a thread that called thread_exit is released exactly
\* once, by the completion of the dispatch that switches away from it, when
\* another thread is the current one; no page is released twice and the page
\* of initial_thread is never released.
C19_PageReleasedOnce ==
  [][\A t \in Threads :
       /\ freed'[t] <= 1
       /\ freed'[initial_thread] = 0
       /\ freed'[t] # freed[t]
            => /\ current = t
               /\ status'[t] = "DYING"
               /\ dispatch'.happened
               /\ dispatch'.prev = t
               /\ dispatch'.next = current'
               /\ current' # t
       /\ (status'[t] = "DYING" /\ t # initial_thread) => freed'[t] = 1
       /\ freed'[t] = 1 => current' # t]_vars

\* C19 witness: the initial thread and another thread have both exited; the
\* other thread's page has been released, the initial thread's has not.
C19_Witness ==
  /\ status[initial_thread] = "DYING"
  /\ freed[initial_thread] = 0
  /\ \E t \in Threads : t # initial_thread /\ status[t] = "DYING" /\ freed[t] = 1
  /\ status[current] = "RUNNING"

\* C20: a thread that has completed thread_exit is not in the all-threads
\* registry, is DYING, is in neither the ready queue nor the sleep queue and
\* stays DYING for ever; its sema_finish has been signalled exactly once, and
\* no sema_finish is signalled more than once.
C20_ExitIsFinal ==
  [][\A t \in Threads :
       /\ status[t] = "DYING" => status'[t] = "DYING"
       /\ status'[t] = "DYING"
            => /\ t \notin all_list'
               /\ t \notin Range(ready_list')
               /\ t \notin Range(sleep_list')
               /\ finish_ups'[t] = 1
       /\ finish_ups'[t] <= 1]_vars

\* C20 witness: a created thread has exited while other threads are READY
\* and asleep, and the system has gone on for a tick.
C20_Witness ==
  /\ \E t \in Threads : t # initial_thread /\ status[t] = "DYING" /\ finish_ups[t] = 1
  /\ ready_list # <<>>
  /\ sleep_list # <<>>
  /\ last.op = "thread_tick"

\* the entries of the ready queue in front of t and behind it
ReadyBefore(t) == { ready_list[i] : i \in 1 .. (IndexOf(ready_list, t) - 1) }
ReadyBehind(t) == { ready_list[i] : i \in (IndexOf(ready_list, t) + 1) .. Len(ready_list) }

\* t is READY and stands in the ready queue behind every entry of equal or
\* higher priority and in front of every entry of lower priority, c excepted
\* (a thread that entered the queue after t)
ReadyInPlaceBut(t, c) ==
  /\ status[t] = "READY"
  /\ InReady(t)
  /\ \A u \in ReadyBefore(t) : priority[u] >= priority[t]
  /\ \A u \in ReadyBehind(t) : priority[u] < priority[t] \/ (u = c /\ priority[u] = priority[t])

ReadyInPlace(t) == ReadyInPlaceBut(t, NULL)

\* the last operation was a thread_create that returned a tid
CreateReturned == last.op = "thread_create" /\ last.arg # TID_ERROR

\* C11 as stated: a running thread of priority 5 creates A with priority 10
\* and then B with priority 20.  The creation of A leaves the creator running
\* and A READY in the queue, so that the creator goes on to create B; the
\* creation of B is followed at once by the dispatch of B.
C11_AsStated ==
  (CreateReturned /\ last.was = 5)
    => /\ priority[last.arg] = 20 => (dispatch.happened /\ current = last.arg)
       /\ priority[last.arg] = 10
            => (~dispatch.happened /\ current = last.caller /\ ReadyInPlace(last.arg))

\* C11 amended: thread_create ends with thread_cond_yield, so a new thread
\* whose priority is above its creator's is dispatched inside thread_create
\* (it, or a thread of at least its priority already in the queue) and the
\* creator is READY: A (10) runs before the priority-5 creator can create
\* B (20).  A new thread that does not outrank its creator is READY in its
\* place in the queue, and the creator is only dispatched away from in
\* favour of a thread above it.
C11_Amended ==
  CreateReturned
    => LET t == last.arg
           c == last.caller
       IN IF priority[t] > last.was
          THEN /\ dispatch.happened
               /\ ReadyInPlace(c)
               /\ current # c
               /\ current = t \/ (priority[current] >= priority[t] /\ ReadyInPlace(t))
          ELSE /\ ReadyInPlaceBut(t, c)
               /\ IF dispatch.happened
                  THEN priority[current] > last.was /\ ReadyInPlace(c)
                  ELSE current = c /\ status[c] = "RUNNING"

\* C11 witness: the priority-5 creator has just created B (20), which runs,
\* after an A (10) that it created before has run and exited.
C11_Witness ==
  /\ CreateReturned
  /\ last.was = 5
  /\ last.caller = initial_thread
  /\ priority[last.arg] = 20
  /\ current = last.arg
  /\ \E a \in Threads : a # last.arg /\ old_priority[a] = 10 /\ status[a] = "DYING"

\* C13: thread_unblock (t) on a BLOCKED thread makes t READY, puts it in the
\* ready queue at its place and changes nothing else: the caller is still
\* RUNNING and current, no dispatch takes place inside the call whatever the
\* priority of t, every other status and the sleep queue are as before.
C13_UnblockOnly ==
  [][last'.op = "thread_unblock"
       => LET t == last'.arg
          IN /\ status[t] = "BLOCKED"
             /\ status'[t] = "READY"
             /\ t \in Range(ready_list')
             /\ \A i, j \in 1 .. Len(ready_list') :
                  i < j => priority[ready_list'[i]] >= priority[ready_list'[j]]
             /\ list_remove(ready_list', t) = ready_list
             /\ \A u \in Threads \ {t} : status'[u] = status[u]
             /\ current' = current
             /\ status'[current] = "RUNNING"
             /\ ~dispatch'.happened
             /\ UNCHANGED <<sleep_list, all_list, priority, old_priority, freed, thread_ticks>>]_vars

\* C13 witness: a thread has just been unblocked that outranks its caller,
\* while a third thread sleeps.
C13_Witness ==
  /\ last.op = "thread_unblock"
  /\ priority[last.arg] > priority[current]
  /\ current = last.caller
  /\ Head(ready_list) = last.arg
  /\ sleep_list # <<>>

\* C16 as stated: a child that exits before its parent waits has signalled
\* its sema_finish, and the parent's later wait goes through: no thread is
\* BLOCKED in the wait for a child whose sema_finish holds a signal.
C16_AsStated ==
  \A p \in Threads :
    (wait_child[p] # NULL /\ status[p] = "BLOCKED") => finish_value[wait_child[p]] = 0

\* C17 as stated: while a parent uses the record get_child_info returned
\* for a child, the record is found by the child's tid and the storage its
\* pointers sema_start, sema_finish and child_thread refer to is not freed.
C17_AsStated ==
  \A p \in Threads :
    wait_child[p] # NULL
      => /\ get_child_info(child_list, wait_child[p]) # NoChildInfo
         /\ freed[get_child_info(child_list, wait_child[p]).child_thread] = 0

\* C18: thread_create returns TID_ERROR exactly when there is no page for
\* the new thread, and then the ready queue, the sleep queue, the
\* all-threads registry, the list of child records, the next tid and every
\* status and priority are as before the call; a call that gets its page
\* returns the new thread's tid, which is not TID_ERROR.
C18_CreateFailure ==
  [][last'.op = "thread_create"
       => IF last'.arg = TID_ERROR
          THEN /\ UNCHANGED <<ready_list, sleep_list, all_list, child_list, next_tid,
                              status, priority, old_priority, current>>
               /\ status'[current] = "RUNNING"
          ELSE /\ last'.arg = next_tid
               /\ next_tid' = next_tid + 1
               /\ status[last'.arg] = "NONE"
               /\ status'[last'.arg] \in {"READY", "RUNNING"}
               /\ last'.arg \in all_list'
               /\ get_child_info(child_list', last'.arg) # NoChildInfo]_vars

\* C18 witness: a thread_create has just failed with threads in the ready
\* queue and in the sleep queue and child records in the list.
C18_Witness ==
  /\ last.op = "thread_create"
  /\ last.arg = TID_ERROR
  /\ ready_list # <<>>
  /\ sleep_list # <<>>
  /\ Len(child_list) >= 2

C15_AsStated ==
  thread_mlfqs
    => \A t \in Threads :
         (Created(t) /\ ~IsIdle(t) /\ recomputed[t] # NoPriority)
           => priority[t] = recomputed[t]

\* C23: with MLFQS off, a thread_yield by a running thread other than the
\* idle thread puts the caller in the ready queue behind every ready thread
\* of its priority: if the head of the queue has the caller's priority or
\* more, the head is dispatched and the caller stands behind all its equals
\* and in front of every lower thread; if every ready thread is strictly
\* lower (or there is none) the caller keeps running and the queue is as it
\* was.  A yield by the idle thread never puts it in the ready queue.
C23_YieldRoundRobin ==
  [][/\ last'.op = "thread_yield"
          => LET c == current
                 p == priority[c]
             IN /\ c # idle_thread
                /\ dispatch'.happened
                /\ UNCHANGED priority
                /\ IF ready_list = <<>> \/ priority[Head(ready_list)] < p
                   THEN /\ current' = c
                        /\ status'[c] = "RUNNING"
                        /\ ready_list' = ready_list
                   ELSE /\ current' = Head(ready_list)
                        /\ status'[current'] = "RUNNING"
                        /\ status'[c] = "READY"
                        /\ c \in Range(ready_list')
                        /\ list_remove(ready_list', c) = Tail(ready_list)
                        /\ \A i \in 1 .. Len(ready_list') :
                             LET u == ready_list'[i]
                             IN u # c =>
                                  IF priority[u] >= p
                                  THEN i < IndexOf(ready_list', c)
                                  ELSE i > IndexOf(ready_list', c)
     /\ (dispatch'.happened /\ idle_thread # NULL /\ dispatch'.prev = idle_thread)
          => idle_thread \notin Range(ready_list')]_vars

\* C23 witness: a thread has yielded to a thread of its own priority and
\* stands last in the ready queue, behind yet another thread of that priority.
C23_Witness ==
  /\ last.op = "thread_yield"
  /\ current # last.caller
  /\ priority[current] = last.was
  /\ Len(ready_list) >= 2
  /\ ready_list[Len(ready_list)] = last.caller
  /\ priority[ready_list[1]] = last.was
  /\ ready_list[1] # last.caller

\* C24: thread_ticks is 0 after every dispatch; a timer tick adds one to it
\* and asks for a yield exactly when it has then reached TIME_SLICE, the
\* yield taking place on return from the interrupt; nothing else changes
\* it, so that it never stands at TIME_SLICE or more between operations.
C24_TimeSlice ==
  [][/\ dispatch'.happened => thread_ticks' = 0
     /\ ticks' = ticks + 1
          => IF thread_ticks + 1 >= TIME_SLICE
             THEN /\ thread_ticks + 1 = TIME_SLICE
                  /\ dispatch'.happened
                  /\ dispatch'.prev = current
             ELSE /\ ~dispatch'.happened
                  /\ thread_ticks' = thread_ticks + 1
                  /\ current' = current
     /\ (ticks' = ticks /\ ~dispatch'.happened) => thread_ticks' = thread_ticks
     /\ thread_ticks' < TIME_SLICE]_vars

\* C24 witness: a thread has run for TIME_SLICE ticks in a row and the
\* fourth tick made it yield to another thread.
C24_Witness ==
  /\ last.op = "thread_tick"
  /\ ticks = TIME_SLICE
  /\ dispatch.happened
  /\ dispatch.prev # dispatch.next
  /\ dispatch.prev # idle_thread
  /\ thread_ticks = 0
  /\ status[dispatch.prev] = "READY"

C26_AsStated ==
  (/\ thread_mlfqs
   /\ \/ last.op \in {"thread_create", "update_priority"}
      \/ last.op = "thread_tick" /\ ticks % 4 = 0)
    => ReadySorted

\* C27 as stated: with MLFQS on, the recent_cpu of an existing thread
\* changes only in a timer tick, by +1 for the thread that is RUNNING and is
\* not the idle thread or by the decay of a tick that completes a second;
\* no other operation changes it, and the idle thread's never changes.
C27_AsStated ==
  [][thread_mlfqs
       => \A t \in Threads :
            (Created(t) /\ recent_cpu'[t] # recent_cpu[t])
              => /\ ticks' = ticks + 1
                 /\ t # idle_thread
                 /\ \/ ticks' % TIMER_FREQ = 0
                    \/ /\ t = current
                       /\ status[t] = "RUNNING"
                       /\ recent_cpu'[t] = ADD_INT(recent_cpu[t], 1)]_vars

\* C28: with MLFQS on, thread_set_nice (n) with n in NICE_MIN .. NICE_MAX
\* sets the caller's nice to n and then, before the caller does anything
\* else, its priority to PRI_MAX - recent_cpu / 4 - 2 * n clamped to
\* PRI_MIN .. PRI_MAX, and the caller yields if and only if the head of the
\* ready queue then has a strictly higher priority; with n outside the
\* range the call changes nothing.
C28_SetNice ==
  [][thread_mlfqs
       => /\ last'.op = "thread_set_nice"
               => /\ IF last'.arg \in NICE_MIN .. NICE_MAX
                     THEN /\ nice' = [nice EXCEPT ![current] = last'.arg]
                          /\ pc' = [pc EXCEPT ![current] = "set_nice_mid"]
                     ELSE UNCHANGED <<nice, pc>>
                  /\ ~dispatch'.happened
                  /\ UNCHANGED <<priority, old_priority, status, ready_list, current,
                                 recent_cpu, load_avg, sleep_list, all_list>>
          /\ last'.op = "update_priority"
               => LET c == current
                      raw == PRI_MAX - CONVERT_TO_INT_ROUND(CDiv(recent_cpu[c], 4)) - 2 * nice[c]
                      outranked == ready_list # <<>> /\ priority[Head(ready_list)] > priority'[c]
                  IN /\ pc[c] = "set_nice_mid"
                     /\ pc'[c] = "run"
                     /\ priority'[c] = IF raw < PRI_MIN THEN PRI_MIN
                                       ELSE IF raw > PRI_MAX THEN PRI_MAX ELSE raw
                     /\ \A t \in Threads \ {c} : priority'[t] = priority[t]
                     /\ UNCHANGED <<nice, recent_cpu, load_avg, old_priority>>
                     /\ dispatch'.happened <=> outranked
                     /\ IF outranked
                        THEN /\ current' = Head(ready_list)
                             /\ status'[c] = "READY"
                             /\ c \in Range(ready_list')
                        ELSE /\ current' = c
                             /\ UNCHANGED <<status, ready_list>>]_vars

\* C28 witness: under MLFQS a thread has set its nice to NICE_MAX, its
\* priority has dropped to a value inside the range and it has yielded to the
\* head of the ready queue.
C28_Witness ==
  /\ thread_mlfqs
  /\ last.op = "update_priority"
  /\ nice[last.caller] = NICE_MAX
  /\ priority[last.caller] < last.was
  /\ priority[last.caller] > PRI_MIN
  /\ dispatch.happened
  /\ current # last.caller
  /\ status[last.caller] = "READY"

\* C29 as stated: with MLFQS off, thread_set_nice leaves the caller's
\* priority and old_priority and the ready queue as they were and causes no
\* dispatch.
C29_AsStated ==
  [][(~thread_mlfqs /\ last'.op \in {"thread_set_nice", "update_priority"})
       => /\ UNCHANGED <<priority, old_priority, ready_list>>
          /\ ~dispatch'.happened]_vars

\* C30 as stated: every modification of the scheduler's shared state is made
\* with interrupts masked, thread_set_nice included, so that no timer
\* interrupt arrives between the parts of an update: no tick finds a thread
\* that has stored its new nice and not yet recomputed its priority.
C30_AsStated ==
  [][ticks' = ticks + 1 => \A t \in Threads : pc[t] # "set_nice_mid"]_vars

\* C21: thread_unblock, thread_yield, thread_sleep, thread_wakeup,
\* thread_set_priority, thread_donate_priority, thread_remove_lock and
\* thread_create return with the interrupt level they were entered with.  A
\* step after which the same thread goes on running leaves the level as it
\* was, unless the step is intr_disable or intr_enable itself (or the
\* intr_enable of thread_start); and whenever a thread runs (also: runs again
\* after a switch away made inside one of the operations), the level is the
\* one that thread last set.
C21_LevelRestored ==
  [][ /\ (current' = current
            /\ last'.op \notin {"intr_disable", "intr_enable", "thread_start",
                                "intr_handler", "intr_iret", "ASSERT"})
         => intr_enabled' = intr_enabled
      /\ (pc'[current'] # "panic" /\ ~intr_context')
         => intr_enabled' = own_level'[current'] ]_vars

\* C21 witness: the initial thread, alone with the idle thread, disabled
\* interrupts and called thread_sleep; thread_wakeup has woken it, and the
\* time-slice yield of the idle thread, which ran with interrupts on, has
\* brought it back: it returns from thread_sleep with interrupts still off.
C21_Witness ==
  /\ last.op = "thread_tick"
  /\ dispatch.happened
  /\ dispatch.prev = idle_thread
  /\ current # idle_thread
  /\ pc[current] = "run"
  /\ ~intr_enabled
  /\ ~own_level[current]
  /\ \A t \in Threads \ {current, idle_thread} : status[t] = "NONE"

\* C22: a violated precondition aborts the kernel before the operation has
\* changed anything.  The step of a failed ASSERT changes no thread, no queue
\* and no priority, and nothing runs after it; thread_yield and thread_exit
\* never get to act in interrupt context, thread_block never with interrupts
\* on or in interrupt context, thread_unblock never on a thread that is not
\* BLOCKED.
C22_AbortBeforeChange ==
  [][ /\ pc[current] # "panic"
      /\ last'.op = "ASSERT"
         => /\ pc'[current] = "panic"
            /\ UNCHANGED <<status, ready_list, sleep_list, all_list, current,
                           priority, old_priority, thread_ticks, next_tid,
                           locks, lock_waiting, finish_value, freed>>
      /\ last'.op \in {"thread_yield", "thread_exit", "sema_up"} => ~intr_context
      /\ (last'.op = "thread_block" /\ pc[last'.caller] = "run")
         => ~intr_context /\ ~intr_enabled
      /\ last'.op = "thread_unblock" => status[last'.arg] = "BLOCKED" ]_vars

\* C22 witness: the handler of an external interrupt has called thread_yield
\* while other threads were ready and blocked; the kernel has panicked.
C22_Witness ==
  /\ pc[current] = "panic"
  /\ last.op = "ASSERT"
  /\ last.arg = "thread_yield"
  /\ intr_context
  /\ ready_list # <<>>
  /\ \E t \in Threads : status[t] = "BLOCKED" /\ pc[t] = "unblock_wait"

\* C31: when thread_create has a page for the thread and none for the child
\* record, it fails cleanly: the step returns to the caller (with TID_ERROR)
\* and leaves no new thread in all_list or in the ready queue, and no status
\* changed.
C31_AsStated ==
  [][ last'.op = "panic"
      => /\ pc'[current] = "run"
         /\ all_list' = all_list
         /\ ready_list' = ready_list
         /\ status' = status ]_vars

\* C32: a thread made by thread_create starts with the nice and the
\* recent_cpu (the same fixed-point value) its creator had when it called
\* thread_create; the initial thread starts with nice 0 and recent_cpu 0.
C32_AsStated ==
  [][ /\ last.op = "thread_init"
         => nice[initial_thread] = 0 /\ recent_cpu[initial_thread] = 0
      /\ (last'.op = "thread_create" /\ last'.arg # TID_ERROR)
         => /\ nice'[last'.arg] = nice[current]
            /\ recent_cpu'[last'.arg] = recent_cpu[current] ]_vars

\* C33: every call of frame_get, frame_free and frame_set_unswapable that
\* returns has released all_lock: between two frame operations the lock is
\* free, so that the next one is not kept waiting for ever.
C33_AsStated == vm_state = "ok" => all_lock = NULL

\* C34: after every frame_get, frame_free and frame_set_unswapable the clock
\* hand current_frame is NULL exactly when the clock list is empty, and
\* otherwise it is a frame_item of the clock list: never an item that was
\* removed or freed, never a sentinel of the list.
C34_AsStated ==
  vm_state = "ok"
  => /\ current_frame = NULL <=> frame_clock_list = <<>>
     /\ current_frame # NULL => current_frame \in Range(frame_clock_list)

\* C35: swap_store never returns the index of a slot in use (returned before
\* and released by neither swap_free nor swap_load), and every index it
\* returns other than -1 is a multiple of BLOCK_PER_PAGE with all its
\* BLOCK_PER_PAGE sectors inside the swap block.  Checked for the calls made
\* directly and for those frame_get makes when it evicts.
C35_SwapStoreFresh ==
  [][ LET index == IF vm_last'.op = "swap_store" THEN vm_last'.ret
                   ELSE IF vm_last'.op = "frame_get" /\ vm_state' = "ok" THEN vm_last'.arg
                   ELSE NO_INDEX
      IN index # NO_INDEX
         => /\ index \notin swap_used
            /\ index \in swap_used'
            /\ index >= 0
            /\ index % BLOCK_PER_PAGE = 0
            /\ index + BLOCK_PER_PAGE <= SwapSectors ]_vars

\* C35 witness: swap_store has handed out again a slot that had been given
\* back, below top_index, while another slot is in use and a third is on the
\* free list.
C35_Witness ==
  /\ vm_last.op \in {"swap_store", "frame_get"}
  /\ vm_state = "ok"
  /\ LET index == IF vm_last.op = "swap_store" THEN vm_last.ret ELSE vm_last.arg
     IN /\ index # NO_INDEX
        /\ index + BLOCK_PER_PAGE < top_index
        /\ index \in swap_used
  /\ Cardinality(swap_used) >= 2
  /\ swap_free_list # <<>>

\* C36: after dir_add (dir, name, sector, is_dir) has returned true,
\* dir_lookup (dir, name) yields the inode at sector, and slot 0 of dir, the
\* link to the parent directory, is as it was before the add.
C36_AsStated ==
  [][ (fs_last'.op = "dir_add" /\ fs_last'.ret)
      => /\ dir_lookup(dir_entries'[fs_last'.dir], fs_last'.name) = fs_last'.sector
         /\ dir_entries'[fs_last'.dir][1] = dir_entries[fs_last'.dir][1]
         /\ dir_lookup_parent(dir_entries'[fs_last'.dir])
              = dir_lookup_parent(dir_entries[fs_last'.dir]) ]_vars

=============================================================================
